---- MODULE Spec2Model ----
(***************************************************************************)
(* Model of mcp-duckduckgo's intent-aware semantic cache                   *)
(* (mcp_duckduckgo/semantic_cache.py) and of the search workflow that      *)
(* consults it (mcp_duckduckgo/search.py).                                 *)
(*                                                                         *)
(* Python objects live in a heap of references, so that copy.deepcopy is   *)
(* something the model does (a new reference with an equal value) and      *)
(* aliasing is something it can exhibit.  Strings that the code inspects   *)
(* character by character (result domains) are sequences of one-character  *)
(* strings.  time.time() is an integer clock `now` that only moves         *)
(* forward; round(age, 2) is the identity on integer ages.                 *)
(*                                                                         *)
(* The module also models the multi-hop orchestration                      *)
(* (mcp_duckduckgo/orchestration/flow.py), the snapshot store of the       *)
(* sandbox (mcp_duckduckgo/sandbox/snapshots.py) and the HTTP client that  *)
(* a search obtains (mcp_duckduckgo/http.py).                              *)
(***************************************************************************)
EXTENDS Integers, Sequences, FiniteSets, TLC

VARIABLES
    store,        \* SemanticCache._store: entries in OrderedDict order (head = oldest)
    max_entries,  \* SemanticCache._max_entries
    heap,         \* the payload object behind every reference
    held,         \* the payload object the caller keeps a reference to (or NoRef)
    lookup,       \* what the last get returned (NoLookup after any other call)
    last,         \* what the last set or mark_domain_stale did to the store
    now,          \* time.time()
    ticks,        \* how often the clock has advanced (bounded)
    call,         \* one record per duckduckgo_search invocation slot
    posts,        \* how often http_client.post has been invoked
    args,         \* the arguments of two calls of a static method of the cache
    ret,          \* what the two calls returned (<<>> before they are made)
    plan,         \* a MultiHopPlan under construction, or constructed
    run,          \* one MultiHopOrchestrator.execute call
    dicts,        \* the contents of every dict that can serve as hop state
    calls,        \* the operations invoked so far, with what they were passed
    entries,      \* SnapshotStore._entries
    snap_max,     \* SnapshotStore._max_entries
    recorded,     \* every snapshot that record returned since the store was empty
    tasks,        \* the coroutines that call tools on one event loop
    lifespan,     \* the lifespan context that every ctx leads to
    clients,      \* every httpx.AsyncClient there is: "open" or "closed"
    server,       \* the server module: its global http_client, its lifespan
    pages         \* how many summarize_webpage and duckduckgo_get_details
                  \* calls have been made

\* The arguments and results of the static methods.
pureVars == <<args, ret>>

\* The semantic cache and the search workflow.
cacheVars ==
    <<store, max_entries, heap, held, lookup, last, now, ticks, call, posts>>

\* The orchestration.
orchVars == <<plan, run, dicts, calls>>

\* The snapshot store of the sandbox.
sandboxVars == <<entries, snap_max, recorded>>

\* Concurrent tool calls and the HTTP clients they use.
concVars == <<tasks, lifespan, clients, server, pages>>

\* What stands beside the cache, the static methods and the orchestration.
sideVars == <<sandboxVars, concVars>>

vars == <<cacheVars, pureVars, orchVars, sideVars>>

-----------------------------------------------------------------------------
\* Bounds of the model.

\* Largest capacity a modelled SemanticCache is constructed with.
MaxCapacity == 2
\* How often the clock advances in one behaviour.
MaxTicks == 2
\* Longest result list one fetch parses out of a page.
MaxResults == 2
\* How many external fetches one behaviour of the search workflow performs.
MaxPosts == 2

-----------------------------------------------------------------------------
\* Freshness table.

INTENT_TTL_SECONDS ==
    [news |-> 15 * 60,
     technical |-> 24 * 60 * 60,
     shopping |-> 6 * 60 * 60,
     academic |-> 36 * 60 * 60,
     finance |-> 3 * 60 * 60,
     local |-> 2 * 60 * 60,
     general |-> 6 * 60 * 60]

\* SemanticCache._intent_ttl: an intent outside the table gets "general".
IntentTtl(intent) ==
    IF intent \in DOMAIN INTENT_TTL_SECONDS
    THEN INTENT_TTL_SECONDS[intent]
    ELSE INTENT_TTL_SECONDS["general"]

\* The instants at which the modelled calls are made, after the
\* construction at 0: on and just after the "news" TTL of what was stored
\* at 0, then on and just after the TTLs of what was stored later and of
\* the "general" intent.
Timeline ==
    <<INTENT_TTL_SECONDS["news"],
      INTENT_TTL_SECONDS["news"] + 1,
      INTENT_TTL_SECONDS["general"] + 1,
      INTENT_TTL_SECONDS["general"] + INTENT_TTL_SECONDS["news"],
      INTENT_TTL_SECONDS["general"] + INTENT_TTL_SECONDS["news"] + 1,
      2 * INTENT_TTL_SECONDS["general"] + 2>>

-----------------------------------------------------------------------------
\* Text.  A string the code inspects is a sequence of characters.

\* str.lower on one character of the modelled alphabet, capital sigma apart.
LowerChar(c) ==
    CASE c = "A" -> "a"
      [] c = "B" -> "b"
      [] c = "C" -> "c"
      [] OTHER -> c

\* A character outside ASCII is written as its Python escape: "\\u03a3" is
\* capital sigma, "\\u03c3" small sigma and "\\u03c2" small final sigma.

\* The modelled characters with the Unicode property Cased.  None of the
\* modelled characters is case-ignorable ("!" is neither).
Cased == {"a", "A", "b", "B", "c", "C", "\\u03a3", "\\u03c3", "\\u03c2"}

\* str.lower's context rule for U+03A3: a capital sigma that follows a cased
\* character and is not followed by one is a final sigma.
FinalSigma(s, i) ==
    /\ i > 1
    /\ s[i - 1] \in Cased
    /\ (i = Len(s) \/ s[i + 1] \notin Cased)

\* str.lower
Lower(s) ==
    [i \in DOMAIN s |->
        IF s[i] = "\\u03a3"
        THEN (IF FinalSigma(s, i) THEN "\\u03c2" ELSE "\\u03c3")
        ELSE LowerChar(s[i])]

\* Python's `needle in hay` on strings
Contains(hay, needle) ==
    \E i \in 0..(Len(hay) - Len(needle)) :
        SubSeq(hay, i + 1, i + Len(needle)) = needle

-----------------------------------------------------------------------------
\* Result records and payloads.

\* The value of a result's "domain" key when it is None or missing.
DomNone == <<"None">>

\* result.get("domain") or ""
DomainText(result) ==
    IF result.domain = DomNone THEN <<>> ELSE result.domain

\* The key "cache_metadata" is absent from the payload.
NoMeta == [status |-> "absent", age_seconds |-> 0]

Meta(status, age) == [status |-> status, age_seconds |-> age]

\* A payload dict: "results", "intent" ("absent" when the key is missing)
\* and "cache_metadata".  total_results and related_searches are carried
\* along by the code without any decision resting on them here.
Payload(results, intent, meta) ==
    [results |-> results, intent |-> intent, cache_metadata |-> meta]

-----------------------------------------------------------------------------
\* Key construction.

\* Python's None where a string or a number is expected.
None == "<None>"

\* hashlib.sha256(text.encode("utf-8")).hexdigest()[:24], tabulated on the
\* lowered forms of QueryTexts.
Digest(text) ==
    CASE text = <<>> -> "e3b0c44298fc1c149afbf4c8"
      [] text = <<"a">> -> "ca978112ca1bbdcafac231b3"
      [] text = <<"b">> -> "3e23e8160039594a33894f65"
      [] text = <<"!">> -> "bb7208bc9b5d7c04f1236a82"
      [] text = <<"\\u03c3">> -> "ff59ed1e562b056aea9bfdf7"
      [] text = <<"\\u03c2">> -> "c720c9b7ea6f974386b2a35e"
      [] text = <<"a", "a">> -> "961b6dd3ede3cb8ecbaacbd6"
      [] text = <<"a", "b">> -> "fb8e20fc2e4c3f248c60c39b"
      [] text = <<"a", "!">> -> "242ed53862c43c5be5f2c521"
      [] text = <<"a", "\\u03c3">> -> "f052cc9681d777a037fbf2f1"
      [] text = <<"a", "\\u03c2">> -> "fe8cb39e3de8188636f1c9f7"
      [] text = <<"b", "a">> -> "970f519c2cadbcefb1e81694"
      [] text = <<"b", "b">> -> "3b64db95cb55c763391c7071"
      [] text = <<"b", "!">> -> "9beaf4034ae97ad72f18190e"
      [] text = <<"b", "\\u03c3">> -> "3344e687e36a007a7b100e70"
      [] text = <<"b", "\\u03c2">> -> "bb52362578692c2be31e48c6"
      [] text = <<"!", "a">> -> "0266b93cf3014995a269f322"
      [] text = <<"!", "b">> -> "3cb3546030d8e7b31eefc425"
      [] text = <<"!", "!">> -> "233d26e97f6469a0a7e0369b"
      [] text = <<"!", "\\u03c3">> -> "ab1fdad0d313ce3bd56f414e"
      [] text = <<"!", "\\u03c2">> -> "4ccb497f738025d37e263048"
      [] text = <<"\\u03c3", "a">> -> "72bf029a4dd3e9f833c124e7"
      [] text = <<"\\u03c3", "b">> -> "363c8d1266c773fb8d74cb75"
      [] text = <<"\\u03c3", "!">> -> "1376a11c0dc7a122f9abc7cb"
      [] text = <<"\\u03c3", "\\u03c3">> -> "3c32e863888432e243da01ab"
      [] text = <<"\\u03c3", "\\u03c2">> -> "473dae1a60cb146a6da05840"
      [] text = <<"\\u03c2", "a">> -> "057de026e37fbe342deabac0"
      [] text = <<"\\u03c2", "b">> -> "ec83813ff801a3384f77626c"
      [] text = <<"\\u03c2", "!">> -> "4358fbaa013e10154370c202"
      [] text = <<"\\u03c2", "\\u03c3">> -> "54fd2dcde8091c10adea1cea"
      [] text = <<"\\u03c2", "\\u03c2">> -> "979e47eaac7283b29c619023"

\* SemanticCache.embed_query
EmbedQuery(query) == Digest(Lower(query))

\* `value or default` for an optional string
OrStr(value, default) ==
    IF value = None \/ value = "" THEN default ELSE value

\* An optional integer: <<>> is None and <<n>> is the integer n.
NoCount == <<>>

\* str(related_count or 0)
CountStr(related_count) ==
    IF related_count = NoCount THEN "0" ELSE ToString(related_count[1])

\* make_key that leaves the page out of the key (a faulty variant).
MakeKeyNoPage(intent, sig, count, offset, page, site, time_period, related, related_count) ==
    intent \o "|" \o sig \o "|" \o ToString(count) \o "|" \o ToString(offset)
    \o "|" \o OrStr(site, "*") \o "|"
    \o OrStr(time_period, "*") \o "|"
    \o (IF related THEN "related" ELSE "plain") \o "|"
    \o CountStr(related_count)

\* SemanticCache.make_key
MakeKey(intent, sig, count, offset, page, site, time_period, related, related_count) ==
    intent \o "|" \o sig \o "|" \o ToString(count) \o "|" \o ToString(offset)
    \o "|" \o ToString(page) \o "|" \o OrStr(site, "*") \o "|"
    \o OrStr(time_period, "*") \o "|"
    \o (IF related THEN "related" ELSE "plain") \o "|"
    \o CountStr(related_count)

-----------------------------------------------------------------------------
\* Orchestration: hops, plans and executions.

\* An optional value: <<>> is "not there" and <<v>> is the value v.
Absent == <<>>

\* A tool's operation returns a value of its own.
Output(name) == "output of " \o name

\* A tool's operation raises an exception of its own.
Failure(name) == "error of " \o name

\* A mapping from hop names to outputs, as a set of <<name, output>> pairs.
\* The mapping a hop's params can carry under the name "dependencies":
ExplicitDependencies == {<<"other", "explicit">>}

\* The context handle that execute is called with.
Ctx == "ctx"

\* The names a parameter mapping can have: the three that execute looks
\* for and one of the operation's own.  A mapping is a record over these
\* names whose absent keys are Absent.
SpecialNames == {"ctx", "dependencies", "state"}

ParamNames == SpecialNames \cup {"query"}

\* params={}
NoParams == [n \in ParamNames |-> Absent]

\* Hop(name, tool, params, depends_on), with the tool named like the hop
\* and params that at most supply "dependencies".
Hop(name, depends_on, dependencies) ==
    [name |-> name, tool |-> name, depends_on |-> depends_on,
     params |-> [NoParams EXCEPT !["dependencies"] = dependencies]]

\* The hop names of the research workflow.
HopNames == {"search", "details", "summary"}

\* The depends_on tuples of the modelled hops ("unknown" names no hop).
DependsOnChoices ==
    {<<>>, <<"search">>, <<"details">>, <<"summary">>,
     <<"details", "search">>, <<"unknown">>}

\* The modelled hops: every name with every depends_on and empty params,
\* and one hop whose params supply "dependencies" themselves.
HopChoices ==
    {Hop(n, d, Absent) : n \in HopNames, d \in DependsOnChoices}
        \cup {Hop("details", <<"search">>, <<ExplicitDependencies>>)}

\* The parameters each registered operation declares by name:
\* search_tool(*, ctx, state, **_), details_tool(*, dependencies, **_) and
\* _summary_hop(*, dependencies, ctx, state, summary_length, **_).
Signature(tool) ==
    CASE tool = "search" -> {"ctx", "state"}
      [] tool = "details" -> {"dependencies"}
      [] tool = "summary" -> {"dependencies", "ctx", "state"}

\* The registries an orchestrator is constructed with.
Registries == {{"search", "details", "summary"}, {"search", "details"}}

\* The dicts: the caller's, the one execute creates, and none.
CallerDict == "caller's dict"

NewDict == "dict created by execute"

NoDict == "None"

\* What the caller's dict holds when it is passed as shared_state.
SharedContents == {{}, {"detail_count"}}

\* Before any execution every dict is empty.
NoDicts == [d \in {CallerDict, NewDict} |-> {}]

\* No plan is being constructed.
NoPlan ==
    [pc |-> "none", hops |-> <<>>, error |-> "", pending |-> <<>>,
     items |-> <<>>, at |-> 0, resolved |-> {}, order |-> <<>>,
     progress |-> FALSE, passes |-> 0]

\* No execution has been started.
NoRun ==
    [pc |-> "idle", registry |-> {}, shared |-> NoDict, state |-> NoDict,
     rest |-> <<>>, results |-> {}, trace |-> <<>>, error |-> ""]

-----------------------------------------------------------------------------
\* The snapshot store of the sandbox (sandbox/snapshots.py).

\* No snapshot store is in use: nothing recorded, capacity 0.
SandboxIdle ==
    /\ entries = <<>>
    /\ snap_max = 0
    /\ recorded = <<>>

\* The coroutines of the modelled event loop.
TaskIds == {"t1", "t2"}

\* No client: http_client = None.
NoClient == 0

\* A coroutine that has not called a tool, or has left it: `outcome` is
\* how the call ended and, for a search that raised, `found` whether its
\* lookup had found an entry; the other locals are gone.
IdleTask(outcome) ==
    [pc |-> "idle", outcome |-> outcome, key |-> "", intent |-> "",
     query |-> <<>>, cached |-> 0, found |-> FALSE, fresh |-> FALSE,
     age_seconds |-> 0, http_client |-> NoClient, close_client |-> FALSE,
     exit |-> "none"]

\* A ctx without a lifespan mapping.
NoLifespan == [mapping |-> FALSE, http_client |-> NoClient]

\* The server module where no server runs: http_client = None.  `up` is
\* whether app_lifespan stands at its yield, `closing` whether a
\* close_http_client is suspended in aclose.
NoServer == [http_client |-> NoClient, up |-> FALSE, closing |-> FALSE]

\* No search is running, no client exists and no server runs.
ConcIdle ==
    /\ tasks = [t \in TaskIds |-> IdleTask("none")]
    /\ lifespan = NoLifespan
    /\ clients = <<>>
    /\ server = NoServer
    /\ pages = 0

\* Nothing beside the cache, the static methods and the orchestration
\* is in use.
SideIdle == SandboxIdle /\ ConcIdle

-----------------------------------------------------------------------------
\* The static methods embed_query and make_key, called on pairs of inputs.

\* The characters of the modelled query texts.
QueryChars == {"a", "A", "b", "!", "\\u03a3", "\\u03c3"}

\* The query texts: every text of at most two modelled characters.
QueryTexts ==
    {<<>>} \cup {<<c>> : c \in QueryChars}
           \cup {<<c, d>> : c \in QueryChars, d \in QueryChars}

\* The fields of make_key's arguments.
KeyFields == DOMAIN [intent |-> 0, embedding_signature |-> 0, count |-> 0,
                     offset |-> 0, page |-> 0, site |-> 0, time_period |-> 0,
                     related |-> 0, related_count |-> 0]

\* The modelled values of each keyword argument of make_key: at least two
\* for every field, with the absent, the empty and the "*" site and time
\* period and values that contain the separator.
KeyValues ==
    [intent : {"general", "news"},
     embedding_signature : {Digest(<<"a", "b">>), Digest(<<"b">>)},
     count : {10, 1},
     offset : {0, 10},
     page : {1, 2},
     site : {None, "", "*", "x", "x|y"},
     time_period : {None, "", "*", "z", "y|z"},
     related : BOOLEAN,
     related_count : {NoCount, <<0>>, <<3>>}]

\* The arguments duckduckgo_search passes for a request that sets the
\* query alone.
DefaultKeyArgs ==
    [intent |-> "general", embedding_signature |-> Digest(<<"a", "b">>),
     count |-> 10, offset |-> 0, page |-> 1, site |-> None,
     time_period |-> None, related |-> FALSE, related_count |-> NoCount]

\* The keyword arguments of the modelled make_key calls: those that
\* depart from the defaults in at most two fields (so that two calls
\* differ in up to four).
KeyArgs ==
    {a \in KeyValues :
        Cardinality({f \in KeyFields : a[f] # DefaultKeyArgs[f]}) <= 2}

\* make_key on a record of keyword arguments
MakeKeyOf(a) ==
    MakeKey(a.intent, a.embedding_signature, a.count, a.offset, a.page,
            a.site, a.time_period, a.related, a.related_count)

\* No static method is being called.
NoArgs == [fn |-> "none"]

\* embed_query is called on the two texts.
EmbedQueryCall ==
    /\ args.fn = "embed_query"
    /\ ret = <<>>
    /\ ret' = <<EmbedQuery(args.a), EmbedQuery(args.b)>>
    /\ UNCHANGED <<cacheVars, args, orchVars, sideVars>>

\* make_key is called on the two sets of arguments.
MakeKeyCall ==
    /\ args.fn = "make_key"
    /\ ret = <<>>
    /\ ret' = <<MakeKeyOf(args.a), MakeKeyOf(args.b)>>
    /\ UNCHANGED <<cacheVars, args, orchVars, sideVars>>

-----------------------------------------------------------------------------
\* Requests of the search workflow.

\* params, with the defaults duckduckgo_search fills in.
Params(query, intent) ==
    [query |-> query, intent |-> intent, count |-> 10, offset |-> 0,
     page |-> 1, site |-> None, time_period |-> None, get_related |-> FALSE,
     related_count |-> NoCount]

\* The requests the modelled callers make.
Requests ==
    {Params(<<"A", "b">>, "news"), Params(<<"a", "b">>, "news")}

\* cache_key of a request
CacheKey(req) ==
    MakeKey(req.intent, EmbedQuery(req.query), req.count, req.offset,
            req.page, req.site, req.time_period, req.get_related,
            req.related_count)

\* None where a payload object is expected.
NoRef == 0

\* No duckduckgo_search call is running; `outcome` is how the last one ended.
Idle(outcome) ==
    [pc |-> "idle", outcome |-> outcome, req |-> Params(<<>>, ""),
     cached |-> NoRef, found |-> FALSE, fresh |-> FALSE, age_seconds |-> 0,
     payload |-> NoRef, exit |-> "none"]

-----------------------------------------------------------------------------
\* The heap of payload objects.

\* The keys of the entries a SemanticCache is driven with directly.
KeySet == {"k1", "k2", "k3"}

\* Every key of the model: those above and those the search workflow makes.
Keys ==
    <<"k1", "k2", "k3",
      CacheKey(Params(<<"A", "b">>, "news")),
      CacheKey(Params(<<"b">>, "news"))>>

\* References 1..Len(Keys) are where an entry's own object goes, the next
\* one is where a caller's object goes, and the rest is room for objects
\* that have to coexist with those.
Refs == 1..(Len(Keys) + 3)

CallerRef == Len(Keys) + 1

KeyRef(key) == CHOOSE i \in DOMAIN Keys : Keys[i] = key

\* What an unused reference holds.
FreeCell == Payload(<<>>, "free", NoMeta)

\* A new object: the preferred reference when nothing uses it, otherwise
\* the last unused one.
AllocRef(used, pref) ==
    IF pref \notin used
    THEN pref
    ELSE CHOOSE r \in Refs \ used : \A q \in Refs \ used : r >= q

\* copy.deepcopy replaced by a plain reference (a faulty variant).
ShallowCopyRef(used, src, pref) == src

\* copy.deepcopy(obj): the reference of the copy, an object of its own.
DeepCopyRef(used, src, pref) == AllocRef(used, pref)

\* The references the entries of a store hold.
StoreRefs(s) == {s[i].payload : i \in DOMAIN s}

\* Objects nobody refers to any more are gone.
Collect(h, live) ==
    LET kept == live
    IN  [r \in Refs |-> IF r \in kept THEN h[r] ELSE FreeCell]

-----------------------------------------------------------------------------
\* SemanticCache: the OrderedDict and the operations on it.

\* CacheEntry
CacheEntry(key, intent, sig, payload, created_at) ==
    [key |-> key, intent |-> intent, embedding_signature |-> sig,
     payload |-> payload, created_at |-> created_at]

StoreKeys(s) == {s[i].key : i \in DOMAIN s}

\* self._store.get(key): the position of the entry, 0 for None
IndexOf(s, key) ==
    IF key \in StoreKeys(s)
    THEN CHOOSE i \in DOMAIN s : s[i].key = key
    ELSE 0

\* The sequence without its i-th element.
RemoveAt(s, i) == SubSeq(s, 1, i - 1) \o SubSeq(s, i + 1, Len(s))

\* OrderedDict.move_to_end(key)
MoveToEnd(s, key) ==
    LET i == IndexOf(s, key)
    IN  IF i = 0 THEN s ELSE Append(RemoveAt(s, i), s[i])

\* CacheEntry.age_seconds at time t
AgeSeconds(entry, t) == t - entry.created_at

\* _evict_if_needed that pops from the recent end (a faulty variant).
EvictNewest(s, max) ==
    IF Len(s) > max /\ Len(s) > 0 THEN SubSeq(s, 1, max) ELSE s

\* SemanticCache._evict_if_needed: popitem(last=False) while over capacity,
\* as far as there is an item to pop.
RECURSIVE EvictIfNeeded(_, _)
EvictIfNeeded(s, max) ==
    IF Len(s) > max /\ Len(s) > 0
    THEN EvictIfNeeded(Tail(s), max)
    ELSE s

\* The loop of _evict_if_needed has emptied the OrderedDict and still
\* finds it over capacity: popitem raises KeyError.
PopsOnEmpty(s, max) == Len(EvictIfNeeded(s, max)) > max

\* An assignment that adds an item also for a key that has one (a faulty
\* variant).
AssignAppend(s, key, entry) == Append(s, entry)

\* self._store[key] = entry: in place when the key exists, else appended.
Assign(s, key, entry) ==
    LET i == IndexOf(s, key)
    IN  IF i = 0 THEN Append(s, entry) ELSE [s EXCEPT ![i] = entry]

\* set without the move_to_end of an existing key (a faulty variant).
SetStoreInPlace(s, key, entry, max) ==
    EvictIfNeeded(Assign(s, key, entry), max)

\* SemanticCache.set on the OrderedDict, given the entry built for it.
SetStore(s, key, entry, max) ==
    LET moved == IF key \in StoreKeys(s) THEN MoveToEnd(s, key) ELSE s
    IN  EvictIfNeeded(Assign(moved, key, entry), max)

\* get's freshness test with a strict comparison (a faulty variant).
IsFreshStrict(entry, intent, t) == AgeSeconds(entry, t) < IntentTtl(intent)

\* get: fresh = entry.age_seconds <= ttl, the ttl of the intent passed in.
IsFresh(entry, intent, t) == AgeSeconds(entry, t) <= IntentTtl(intent)

\* get that restarts the age of an entry it finds fresh (a faulty
\* variant).
GetStoreTouch(s, key, intent, t) ==
    LET i == IndexOf(s, key)
    IN  IF i # 0 /\ IsFresh(s[i], intent, t)
        THEN MoveToEnd([s EXCEPT ![i].created_at = t], key)
        ELSE s

\* get that refreshes recency on every hit (a faulty variant).
GetStoreAlways(s, key, intent, t) == MoveToEnd(s, key)

\* SemanticCache.get on the OrderedDict: move_to_end only when fresh.
GetStore(s, key, intent, t) ==
    LET i == IndexOf(s, key)
    IN  IF i # 0 /\ IsFresh(s[i], intent, t) THEN MoveToEnd(s, key) ELSE s

\* mark_domain_stale's test without lower-casing the candidate (a faulty
\* variant).
ResultMatchesCased(result, domain) ==
    Contains(DomainText(result), Lower(domain))

\* mark_domain_stale, one result: lowered in (result.get("domain") or "").lower()
ResultMatches(result, domain) ==
    Contains(Lower(DomainText(result)), Lower(domain))

\* mark_domain_stale, one entry: some result of its payload matches.
EntryMatches(h, entry, domain) ==
    LET results == h[entry.payload].results
    IN  \E j \in DOMAIN results : ResultMatches(results[j], domain)

\* SemanticCache.mark_domain_stale on the OrderedDict: the matching keys
\* are collected in one pass and popped, the others keep their order.
RECURSIVE MarkDomainStaleStore(_, _, _)
MarkDomainStaleStore(s, h, domain) ==
    IF s = <<>> THEN <<>>
    ELSE IF EntryMatches(h, Head(s), domain)
         THEN MarkDomainStaleStore(Tail(s), h, domain)
         ELSE <<Head(s)>> \o MarkDomainStaleStore(Tail(s), h, domain)

-----------------------------------------------------------------------------
\* SemanticCache.get and SemanticCache.set on the cache and the heap.

HeldSet == IF held = NoRef THEN {} ELSE {held}

\* What time.time() can return to a call that has read `now` from it
\* before: the clock has not moved, or it has moved on to the next instant
\* of the timeline.
ClockReads ==
    {now} \cup (IF ticks < MaxTicks /\ ticks < Len(Timeline)
                THEN {Timeline[ticks + 1]}
                ELSE {})

\* How often the clock has advanced once it shows t.
TicksAt(t) == IF t = now THEN ticks ELSE ticks + 1

\* get(key, intent).  entry.age_seconds reads the clock, and get evaluates
\* it twice: for the freshness test, when the clock shows t, and for the
\* age of the CacheLookup it returns, when the clock shows t2.
\* `callerRefs` are the objects the caller still refers to.  The result
\* carries the store after the call, whether an entry was found, and for
\* a found entry the reference of the copy handed out, the heap holding
\* it, the age and the freshness.
CacheGet(s, h, t, t2, key, intent, callerRefs) ==
    LET i == IndexOf(s, key)
    IN  IF i = 0
        THEN [store |-> s, heap |-> h, found |-> FALSE, ref |-> NoRef,
              age_seconds |-> 0, fresh |-> FALSE]
        ELSE LET ref == DeepCopyRef(StoreRefs(s) \cup callerRefs,
                                    s[i].payload, CallerRef)
             IN  [store |-> GetStore(s, key, intent, t),
                  heap |-> [h EXCEPT ![ref] = h[s[i].payload]],
                  found |-> TRUE,
                  ref |-> ref,
                  age_seconds |-> AgeSeconds(s[i], t2),
                  fresh |-> IsFresh(s[i], intent, t)]

\* set(key, intent=, embedding_signature=, payload=src) at time t, for a
\* cache of capacity max.  The result carries the store and the heap after
\* the call and whether the call raised; `callerRefs` are the objects the
\* caller refers to afterwards.
CacheSet(s, h, max, t, key, intent, sig, src, callerRefs) ==
    LET i == IndexOf(s, key)
        others == {s[j].payload : j \in DOMAIN s \ {i}}
        ref == DeepCopyRef(others \cup callerRefs \cup {src}, src, KeyRef(key))
        entry == CacheEntry(key, intent, sig, ref, t)
        s2 == SetStore(s, key, entry, max)
        h2 == [h EXCEPT ![ref] = h[src]]
    IN  [store |-> s2, heap |-> Collect(h2, StoreRefs(s2) \cup callerRefs),
         raised |-> PopsOnEmpty(s2, max)]

-----------------------------------------------------------------------------
\* Inputs of the modelled callers.

\* Results as the page parser builds them: "title" stands for the text of
\* title and description, "rel" for the score rerank computes from that
\* text for the request's query and intent.
RA == [url |-> "u1", title |-> "old", domain |-> <<"A", "b">>, rel |-> 1]
RA2 == [url |-> "u1", title |-> "new", domain |-> <<"A", "b">>, rel |-> 2]
RB == [url |-> "u2", title |-> "old", domain |-> <<"b", "C">>, rel |-> 2]
\* An anchor without href: url "" and extract_domain("") = "".
RNoUrl == [url |-> "", title |-> "old", domain |-> <<>>, rel |-> 0]
\* A result dict whose "domain" is None.
RNoDomain == [url |-> "u3", title |-> "old", domain |-> DomNone, rel |-> 0]

\* What set is called with directly: intent, embedding_signature, payload.
SetInputs ==
    {<<"news", "sigA", Payload(<<RB>>, "absent", NoMeta)>>,
     <<"general", "sigB", Payload(<<RNoDomain, RA>>, "absent", NoMeta)>>}

\* The intents passed to get directly.
GetIntents == {"news", "general"}

\* The domains passed to mark_domain_stale.
DomainInputs == {<<"B">>, <<"A", "B">>, <<"c", "b">>, <<>>}

-----------------------------------------------------------------------------
\* The cache driven directly: each call passes a literal and keeps no
\* reference to what it passed or received.

\* The last call was no set and no mark_domain_stale.
NoLast == [op |-> "none", key |-> "", replaced |-> FALSE, dropped |-> {}]

NoLookup ==
    [op |-> "none", key |-> "", intent |-> "", payload |-> FreeCell,
     age_seconds |-> 0, fresh |-> FALSE]

\* cache.set(key, intent=..., embedding_signature=..., payload={...})
Set(key, intent, sig, p) ==
    LET tmp == AllocRef(StoreRefs(store) \cup HeldSet, CallerRef)
        r == CacheSet(store, [heap EXCEPT ![tmp] = p], max_entries, now,
                      key, intent, sig, tmp, HeldSet)
    IN  /\ store' = r.store
        /\ heap' = r.heap
        /\ lookup' = NoLookup
        /\ last' = [op |-> IF r.raised THEN "set raised KeyError" ELSE "set",
                    key |-> key,
                    replaced |-> key \in StoreKeys(store),
                    dropped |-> (StoreKeys(store) \cup {key})
                                \ StoreKeys(r.store)]
        /\ UNCHANGED <<max_entries, held, now, ticks, call, posts>>
        /\ UNCHANGED <<pureVars, sideVars, orchVars>>

\* cache.get(key, intent): the call starts when the clock shows `now`, and
\* for an entry it finds it reads the clock a second time, which may have
\* moved on to t2 by then.
Get(key, intent) ==
    \E t2 \in ClockReads :
        LET r == CacheGet(store, heap, now, t2, key, intent, HeldSet)
        IN  /\ r.found \/ t2 = now
            /\ store' = r.store
            /\ heap' = Collect(r.heap, StoreRefs(r.store) \cup HeldSet)
            /\ lookup' =
                 IF r.found
                 THEN [op |-> "found", key |-> key, intent |-> intent,
                       payload |-> r.heap[r.ref],
                       age_seconds |-> r.age_seconds, fresh |-> r.fresh]
                 ELSE [NoLookup EXCEPT !.op = "missing", !.key = key,
                                       !.intent = intent]
            /\ last' = NoLast
            /\ now' = t2
            /\ ticks' = TicksAt(t2)
            /\ UNCHANGED <<max_entries, held, call, posts>>
            /\ UNCHANGED <<pureVars, sideVars, orchVars>>

\* cache.mark_domain_stale(domain)
MarkDomainStale(domain) ==
    LET s2 == MarkDomainStaleStore(store, heap, domain)
    IN  /\ store' = s2
        /\ heap' = Collect(heap, StoreRefs(s2) \cup HeldSet)
        /\ lookup' = NoLookup
        /\ last' = [op |-> "mark_domain_stale", key |-> "",
                    replaced |-> FALSE,
                    dropped |-> StoreKeys(store) \ StoreKeys(s2)]
        /\ UNCHANGED <<max_entries, held, now, ticks, call, posts>>
        /\ UNCHANGED <<pureVars, sideVars, orchVars>>

\* cache.clear()
Clear ==
    /\ store' = <<>>
    /\ heap' = Collect(heap, HeldSet)
    /\ lookup' = NoLookup
    /\ last' = NoLast
    /\ UNCHANGED <<max_entries, held, now, ticks, call, posts>>
    /\ UNCHANGED <<pureVars, sideVars, orchVars>>

\* Time passes, between two calls or while a call is suspended.
Tick ==
    /\ ticks < MaxTicks
    /\ ticks < Len(Timeline)
    /\ now' = Timeline[ticks + 1]
    /\ ticks' = ticks + 1
    /\ lookup' = NoLookup
    /\ last' = NoLast
    /\ UNCHANGED <<store, max_entries, heap, held, call, posts>>
    /\ UNCHANGED <<pureVars, sideVars, orchVars>>

\* SemanticCache(max_entries): an empty store.
Init ==
    /\ store = <<>>
    /\ max_entries \in 1..MaxCapacity
    /\ heap = [r \in Refs |-> FreeCell]
    /\ held = NoRef
    /\ lookup = NoLookup
    /\ last = NoLast
    /\ now = 0
    /\ ticks = 0
    /\ call = Idle("none")
    /\ posts = 0
    /\ plan = NoPlan
    /\ run = NoRun
    /\ dicts = NoDicts
    /\ calls = <<>>
    /\ SideIdle
    /\ args = NoArgs
    /\ ret = <<>>

Next ==
    \/ \E key \in KeySet, a \in SetInputs : Set(key, a[1], a[2], a[3])
    \/ \E key \in KeySet, intent \in GetIntents : Get(key, intent)
    \/ \E domain \in DomainInputs : MarkDomainStale(domain)
    \/ Clear
    \/ Tick

Spec == Init /\ [][Next]_vars

\* SemanticCache(max_entries) for any capacity, also none and less.
InitCapacity ==
    /\ store = <<>>
    /\ max_entries \in (-1)..MaxCapacity
    /\ heap = [r \in Refs |-> FreeCell]
    /\ held = NoRef
    /\ lookup = NoLookup
    /\ last = NoLast
    /\ now = 0
    /\ ticks = 0
    /\ call = Idle("none")
    /\ posts = 0
    /\ plan = NoPlan
    /\ run = NoRun
    /\ dicts = NoDicts
    /\ calls = <<>>
    /\ SideIdle
    /\ args = NoArgs
    /\ ret = <<>>

SpecCapacity == InitCapacity /\ [][Next]_vars

\* Two calls of a static method, on any two of the modelled inputs.
InitKey ==
    /\ store = <<>>
    /\ max_entries = 1
    /\ heap = [r \in Refs |-> FreeCell]
    /\ held = NoRef
    /\ lookup = NoLookup
    /\ last = NoLast
    /\ now = 0
    /\ ticks = 0
    /\ call = Idle("none")
    /\ posts = 0
    /\ plan = NoPlan
    /\ run = NoRun
    /\ dicts = NoDicts
    /\ calls = <<>>
    /\ SideIdle
    /\ ret = <<>>
    /\ \/ \E a \in QueryTexts, b \in QueryTexts :
             args = [fn |-> "embed_query", a |-> a, b |-> b]
       \/ \E a \in KeyArgs, b \in KeyArgs :
             args = [fn |-> "make_key", a |-> a, b |-> b]

NextKey ==
    \/ EmbedQueryCall
    \/ MakeKeyCall

SpecKey == InitKey /\ [][NextKey]_vars

-----------------------------------------------------------------------------
\* The search workflow: duckduckgo_search(params, ctx).

\* The result lists of at most n results over a set of results.
RECURSIVE ResultLists(_, _)
ResultLists(R, n) ==
    IF n = 0 THEN {<<>>}
    ELSE LET shorter == ResultLists(R, n - 1)
         IN  shorter \cup {Append(l, r) : l \in shorter, r \in R}

\* What parsing a fetched page can yield.
FetchOutputs == ResultLists({RA, RA2, RB, RNoUrl}, MaxResults)

\* list.sort(key=score, reverse=True), one element: it goes behind every
\* element that does not score lower (the sort is stable).
RECURSIVE InsertByScore(_, _)
InsertByScore(sorted, r) ==
    IF sorted = <<>> THEN <<r>>
    ELSE IF Head(sorted).rel >= r.rel
         THEN <<Head(sorted)>> \o InsertByScore(Tail(sorted), r)
         ELSE <<r>> \o sorted

\* rerank_results for a query that has tokens: by descending score.
RECURSIVE RerankResults(_)
RerankResults(results) ==
    IF results = <<>> THEN <<>>
    ELSE InsertByScore(RerankResults(SubSeq(results, 1, Len(results) - 1)),
                       results[Len(results)])

\* _merge_results, the loop over primary + secondary with `seen` so far.
RECURSIVE MergeLoop(_, _)
MergeLoop(rest, seen) ==
    IF rest = <<>> THEN <<>>
    ELSE LET r == Head(rest)
         IN  IF r.url = "" \/ r.url \in seen
             THEN MergeLoop(Tail(rest), seen)
             ELSE <<r>> \o MergeLoop(Tail(rest), seen \cup {r.url})

\* _merge_results with the cached results first (a faulty variant).
MergeCachedFirst(primary, secondary) == MergeLoop(secondary \o primary, {})

\* _merge_results
MergeResults(primary, secondary) == MergeLoop(primary \o secondary, {})

\* payload_results that drops the cached payload (a faulty variant).
PayloadResultsFreshOnly(reranked, h, cached) == reranked

\* payload_results: merged only when a cached payload with results exists.
PayloadResults(reranked, h, cached) ==
    IF cached # NoRef /\ h[cached].results # <<>>
    THEN MergeResults(reranked, h[cached].results)
    ELSE reranked

\* The annotation without the refresh branch (a faulty variant).
FetchMetaMiss(cached, age) == Meta("miss", 0)

\* The cache_metadata a completed fetch annotates the payload with.
FetchMeta(cached, age) ==
    IF cached # NoRef THEN Meta("refresh", age) ELSE Meta("miss", 0)

\* A coroutine runs from one await to the next without interruption, and
\* an await suspends it only if what is awaited does.  ctx.debug, ctx.info,
\* ctx.report_progress and ctx.error are called if ctx has them, and like
\* http_client.aclose they complete at once or suspend (as a write to the
\* session does); http_client.post suspends.  A step below is what
\* duckduckgo_search does between two suspensions: where it comes to one
\* of the former awaits it stops there (`suspends`) or goes on.

\* The objects a call refers to.
CallRefs(c) == {c.cached, c.payload} \ {NoRef}

\* The call once it has left the function, by "return" or by "raise".
Left(c, exit) ==
    [c EXCEPT !.pc = "idle",
              !.outcome = IF exit = "return" THEN "returned" ELSE "raised",
              !.cached = NoRef, !.payload = NoRef, !.exit = "none"]

\* finally: the call suspended in http_client.aclose(), with the way it
\* is about to leave; or, when it does not close or aclose completes at
\* once, the call having left.
AfterFinally(c, exit, suspends) ==
    IF suspends THEN [c EXCEPT !.pc = "closing", !.exit = exit]
    ELSE Left(c, exit)

\* duckduckgo_search from the call to its first suspension: the key and
\* the cache lookup.  On a fresh entry the copy is annotated and, past
\* ctx.debug, returned.  Otherwise the copy of a stale payload is kept for
\* the merge, get_http_client is called and, past ctx.info,
\* http_client.post is invoked.  The caller lets go of the previous
\* response when it calls.
SearchLookup(req) ==
    \E t2 \in ClockReads, suspends \in BOOLEAN :
        LET key == CacheKey(req)
            r == CacheGet(store, heap, now, t2, key, req.intent, {})
            hit == r.found /\ r.fresh
            annotated == [r.heap[r.ref] EXCEPT
                             !.intent = req.intent,
                             !.cache_metadata = Meta("hit", r.age_seconds)]
            started == [Idle("none") EXCEPT
                           !.req = req, !.found = r.found,
                           !.fresh = r.fresh,
                           !.age_seconds = r.age_seconds]
        IN  /\ call.pc = "idle"
            /\ r.found \/ t2 = now
            /\ hit \/ posts < MaxPosts
            /\ store' = r.store
            /\ now' = t2
            /\ ticks' = TicksAt(t2)
            /\ IF hit
               THEN /\ heap' = Collect([r.heap EXCEPT ![r.ref] = annotated],
                                       StoreRefs(r.store) \cup {r.ref})
                    /\ held' = IF suspends THEN NoRef ELSE r.ref
                    /\ call' = IF suspends
                               THEN [started EXCEPT !.pc = "debug",
                                                    !.payload = r.ref]
                               ELSE Left(started, "return")
                    /\ posts' = posts
               ELSE /\ heap' = Collect(r.heap,
                                       StoreRefs(r.store) \cup {r.ref})
                    /\ held' = NoRef
                    /\ call' = [started EXCEPT
                                   !.pc = IF suspends THEN "info"
                                          ELSE "fetching",
                                   !.cached = r.ref]
                    /\ posts' = IF suspends THEN posts ELSE posts + 1
            /\ lookup' = NoLookup
            /\ last' = NoLast
            /\ UNCHANGED max_entries
            /\ UNCHANGED <<pureVars, sideVars, orchVars>>

\* ctx.debug has completed (what it raises is suppressed): return
\* cached_result.
SearchReturnHit ==
    /\ call.pc = "debug"
    /\ held' = call.payload
    /\ call' = Left(call, "return")
    /\ lookup' = NoLookup
    /\ last' = NoLast
    /\ UNCHANGED <<store, max_entries, heap, now, ticks, posts>>
    /\ UNCHANGED <<pureVars, sideVars, orchVars>>

\* ctx.info has completed: http_client.post is invoked.
SearchPost ==
    /\ call.pc = "info"
    /\ call' = [call EXCEPT !.pc = "fetching"]
    /\ posts' = posts + 1
    /\ lookup' = NoLookup
    /\ last' = NoLast
    /\ UNCHANGED <<store, max_entries, heap, held, now, ticks>>
    /\ UNCHANGED <<pureVars, sideVars, orchVars>>

\* The response has arrived with status 200 and the coroutine is
\* suspended in a ctx.report_progress, before or inside the loop over
\* the result rows.
SearchProgress ==
    /\ call.pc = "fetching"
    /\ call' = [call EXCEPT !.pc = "progress"]
    /\ lookup' = NoLookup
    /\ last' = NoLast
    /\ UNCHANGED <<store, max_entries, heap, held, now, ticks, posts>>
    /\ UNCHANGED <<pureVars, sideVars, orchVars>>

\* The page parses into `results`: rerank, merge with the stale payload,
\* annotate, store, and past the finally block return the payload.
SearchStore(results) ==
    \E suspends \in BOOLEAN :
        LET req == call.req
            reranked == RerankResults(results)
            payload == Payload(PayloadResults(reranked, heap, call.cached),
                               req.intent,
                               FetchMeta(call.cached, call.age_seconds))
            obj == AllocRef(StoreRefs(store) \cup {call.cached}, CallerRef)
            kept == IF suspends THEN CallRefs(call) ELSE {}
            r == CacheSet(store, [heap EXCEPT ![obj] = payload],
                          max_entries, now, CacheKey(req), req.intent,
                          EmbedQuery(req.query), obj, {obj} \cup kept)
        IN  /\ call.pc \in {"fetching", "progress"}
            /\ store' = r.store
            /\ heap' = r.heap
            /\ held' = IF suspends THEN NoRef ELSE obj
            /\ call' = AfterFinally([call EXCEPT !.payload = obj],
                                    "return", suspends)
            /\ lookup' = NoLookup
            /\ last' = NoLast
            /\ UNCHANGED <<max_entries, now, ticks, posts>>
            /\ UNCHANGED <<pureVars, sideVars, orchVars>>

\* Something raises inside the try block (the post, the status check,
\* the parsing, or what is awaited on the way): nothing is stored, the
\* handler reports through ctx.error, and past the finally block
\* DuckDuckGoSearchError is raised.
SearchFail ==
    \E suspends \in BOOLEAN, closing \in BOOLEAN :
        /\ call.pc \in {"info", "fetching", "progress"}
        /\ call' = IF suspends THEN [call EXCEPT !.pc = "error"]
                   ELSE AfterFinally(call, "raise", closing)
        /\ heap' = Collect(heap, StoreRefs(store) \cup CallRefs(call'))
        /\ held' = NoRef
        /\ lookup' = NoLookup
        /\ last' = NoLast
        /\ UNCHANGED <<store, max_entries, now, ticks, posts>>
        /\ UNCHANGED <<pureVars, sideVars, orchVars>>

\* ctx.error has completed: the finally block, then the raise.
SearchError ==
    \E closing \in BOOLEAN :
        /\ call.pc = "error"
        /\ call' = AfterFinally(call, "raise", closing)
        /\ heap' = Collect(heap, StoreRefs(store) \cup CallRefs(call'))
        /\ lookup' = NoLookup
        /\ last' = NoLast
        /\ UNCHANGED <<store, max_entries, held, now, ticks, posts>>
        /\ UNCHANGED <<pureVars, sideVars, orchVars>>

\* http_client.aclose() has completed: the call leaves the function the
\* way it was about to.
SearchClosed ==
    /\ call.pc = "closing"
    /\ call' = Left(call, call.exit)
    /\ held' = IF call.exit = "return" THEN call.payload ELSE NoRef
    /\ heap' = Collect(heap, StoreRefs(store) \cup {held'})
    /\ lookup' = NoLookup
    /\ last' = NoLast
    /\ UNCHANGED <<store, max_entries, now, ticks, posts>>
    /\ UNCHANGED <<pureVars, sideVars, orchVars>>

\* What a caller does to a payload it holds: results.clear() and a
\* cache_metadata of its own.
Mutated(p) ==
    [p EXCEPT !.results = <<>>, !.cache_metadata = Meta("tampered", 0)]

\* The caller changes the payload a search returned to it.
CallerMutate ==
    /\ call.pc = "idle"
    /\ held # NoRef
    /\ heap' = [heap EXCEPT ![held] = Mutated(heap[held])]
    /\ UNCHANGED <<store, max_entries, held, lookup, last, now, ticks, call,
                   posts>>
    /\ UNCHANGED <<pureVars, sideVars, orchVars>>

\* The module-level cache, scaled down, before the first request.  The
\* requests of this part share one key, so that no capacity of one or
\* more makes a difference.
InitSearch ==
    /\ store = <<>>
    /\ max_entries = MaxCapacity
    /\ heap = [r \in Refs |-> FreeCell]
    /\ held = NoRef
    /\ lookup = NoLookup
    /\ last = NoLast
    /\ now = 0
    /\ ticks = 0
    /\ call = Idle("none")
    /\ posts = 0
    /\ plan = NoPlan
    /\ run = NoRun
    /\ dicts = NoDicts
    /\ calls = <<>>
    /\ SideIdle
    /\ args = NoArgs
    /\ ret = <<>>

NextSearch ==
    \/ \E req \in Requests : SearchLookup(req)
    \/ SearchReturnHit
    \/ SearchPost
    \/ SearchProgress
    \/ \E results \in FetchOutputs : SearchStore(results)
    \/ SearchFail
    \/ SearchError
    \/ SearchClosed
    \/ CallerMutate
    \/ Tick

SpecSearch == InitSearch /\ [][NextSearch]_vars

-----------------------------------------------------------------------------
\* SnapshotStore: record, clear and the pruning.

\* The largest capacity a store is constructed with.
MaxSnapshots == 2

\* How many snapshots are recorded before the store is cleared.
MaxRecords == 4

\* The recorded contents: one that is its own preview and one whose
\* whitespace the preview collapses.
SnapshotContents == {"content 0", "line1\nline2"}

\* hashlib.sha256(content.encode("utf-8")).hexdigest()
HashContent(content) ==
    CASE content = "content 0" ->
             "75e0d458fc2da40b5b8b8b614d0192e9da7fffc2d6042f33300fdb0e8a83dfb4"
      [] content = "line1\nline2" ->
             "683376e290829b482c2655745caffa7a1dccfa10afaa62dac2b42dd6c68d0f83"

\* content_hash[:8]
HashPrefix(content) ==
    CASE content = "content 0" -> "75e0d458"
      [] content = "line1\nline2" -> "683376e2"

\* " ".join(content.split()), which is under the limit of 240 characters
PreviewOf(content) ==
    CASE content = "content 0" -> "content 0"
      [] content = "line1\nline2" -> "line1 line2"

\* The snapshot that record builds at the instant t; metadata is an
\* optional dict, and `metadata or {}` turns None into an empty one.
Snapshot(url, content, metadata, t) ==
    [id |-> "snap-" \o ToString(t * 1000) \o "-" \o HashPrefix(content),
     url |-> url,
     created_at |-> t,
     content_hash |-> HashContent(content),
     preview |-> PreviewOf(content),
     metadata |-> IF metadata = Absent THEN {} ELSE metadata[1]]

\* A pruning that deletes at the end of the list (a faulty variant).
PruneNewest(e, max) ==
    LET overflow == Len(e) - max
    IN  IF overflow <= 0 THEN e
        ELSE SubSeq(e, 1, IF max > 0 THEN max ELSE 0)

\* _prune_if_needed: del self._entries[:overflow]
PruneIfNeeded(e, max) ==
    LET overflow == Len(e) - max
    IN  IF overflow <= 0 THEN e
        ELSE SubSeq(e, overflow + 1, Len(e))

\* The keyword arguments of the modelled record calls.
RecordInputs ==
    {<<"https://example.com/0", "content 0", Absent>>,
     <<"https://example.com/1", "line1\nline2", <<{<<"a", 1>>}>> >>}

\* record(url=, content=, metadata=)
Record(url, content, metadata) ==
    /\ Len(recorded) < MaxRecords
    /\ LET snapshot == Snapshot(url, content, metadata, now)
       IN  /\ entries' = PruneIfNeeded(Append(entries, snapshot), snap_max)
           /\ recorded' = Append(recorded, snapshot)
    /\ UNCHANGED <<cacheVars, pureVars, orchVars, snap_max, concVars>>

\* clear()
SnapshotClear ==
    /\ entries' = <<>>
    /\ recorded' = <<>>
    /\ UNCHANGED <<cacheVars, pureVars, orchVars, snap_max, concVars>>

\* SnapshotStore(max_entries): an empty ledger of some capacity.
InitSandbox ==
    /\ store = <<>>
    /\ max_entries = 1
    /\ heap = [r \in Refs |-> FreeCell]
    /\ held = NoRef
    /\ lookup = NoLookup
    /\ last = NoLast
    /\ now = 0
    /\ ticks = 0
    /\ call = Idle("none")
    /\ posts = 0
    /\ args = NoArgs
    /\ ret = <<>>
    /\ plan = NoPlan
    /\ run = NoRun
    /\ dicts = NoDicts
    /\ calls = <<>>
    /\ entries = <<>>
    /\ snap_max \in 0..MaxSnapshots
    /\ recorded = <<>>
    /\ ConcIdle

NextSandbox ==
    \/ \E a \in RecordInputs : Record(a[1], a[2], a[3])
    \/ SnapshotClear
    \/ Tick

SpecSandbox == InitSandbox /\ [][NextSandbox]_vars

-----------------------------------------------------------------------------
\* Tools as coroutines of one event loop: duckduckgo_search on the
\* module-level cache, summarize_webpage, which takes its HTTP client
\* the same way, and duckduckgo_get_details, which makes its own.  A step
\* is what a coroutine does between two suspensions.

\* How many fetches the modelled tool calls start altogether.
MaxFetches == 3

\* How many HTTP clients there are altogether.
MaxClients == 3

\* The requests of the coroutines: two keys, one intent.
TaskRequests == {Params(<<"a", "b">>, "news"), Params(<<"b">>, "news")}

\* What parsing a fetched page yields for a coroutine.
TaskOutputs == {<<RA>>, <<RB>>}

\* The client the server makes at startup and keeps in its lifespan dict.
ServerLifespan == [mapping |-> TRUE, http_client |-> 1]

\* The server module once app_lifespan has made that client and yielded
\* the dict: the client is the module's global http_client too.
RunningServer == [http_client |-> 1, up |-> TRUE, closing |-> FALSE]

\* The server module that goes with a lifespan context.
ServerOf(ls) == IF ls = ServerLifespan THEN RunningServer ELSE NoServer

\* The lifespan contexts: none, a dict without a client and a dict that
\* holds the client the server made at startup.
Lifespans ==
    {NoLifespan,
     [mapping |-> TRUE, http_client |-> NoClient],
     ServerLifespan}

\* get_http_client that tells every caller to close (a faulty variant).
GetHttpClientToClose(ls, cs) ==
    IF ls.mapping /\ ls.http_client # NoClient
    THEN [client |-> ls.http_client, should_close |-> TRUE,
          lifespan |-> ls, clients |-> cs]
    ELSE [client |-> Len(cs) + 1, should_close |-> TRUE,
          lifespan |-> IF ls.mapping
                       THEN [ls EXCEPT !.http_client = Len(cs) + 1] ELSE ls,
          clients |-> Append(cs, "open")]

\* get_http_client(ctx): the client of the lifespan dict; or a new one
\* that is put into the dict; or, without a dict, a new one to be closed.
GetHttpClient(ls, cs) ==
    IF ls.mapping /\ ls.http_client # NoClient
    THEN [client |-> ls.http_client, should_close |-> FALSE,
          lifespan |-> ls, clients |-> cs]
    ELSE IF ls.mapping
    THEN [client |-> Len(cs) + 1, should_close |-> FALSE,
          lifespan |-> [ls EXCEPT !.http_client = Len(cs) + 1],
          clients |-> Append(cs, "open")]
    ELSE [client |-> Len(cs) + 1, should_close |-> TRUE,
          lifespan |-> ls, clients |-> Append(cs, "open")]

\* if close_client and http_client
Closes(task) == task.close_client /\ task.http_client # NoClient

\* finally: if close_client and http_client: await http_client.aclose()
Finally(cs, task) ==
    IF Closes(task)
    THEN [cs EXCEPT ![task.http_client] = "closed"]
    ELSE cs

\* The stale payloads that the coroutines other than t hold.
CachedBy(ts, t) ==
    {ts[u].cached : u \in {v \in TaskIds \ {t} : ts[v].cached # NoRef}}

\* The stale payloads that the coroutines hold.
TaskRefs(ts) == {ts[u].cached : u \in TaskIds} \ {NoRef}

\* The coroutines that are about to invoke http_client.post.
Posting == {t \in TaskIds : tasks[t].pc = "info"}

\* The fetches that tool calls have come to: the posts of the searches,
\* invoked or about to be, and the pages of the other tools.
Fetches == posts + Cardinality(Posting) + pages

\* The coroutine once it has left duckduckgo_search, by "return" or by
\* "raise".
LeftTask(task, exit) ==
    IF exit = "return"
    THEN IdleTask("returned")
    ELSE [IdleTask("raised") EXCEPT !.found = task.found]

\* Past the finally block of duckduckgo_search: suspended in
\* http_client.aclose(), with the way the coroutine is about to leave,
\* or having left.
AfterFinallyTask(task, exit, suspends) ==
    IF suspends /\ Closes(task)
    THEN [task EXCEPT !.pc = "closing", !.exit = exit]
    ELSE LeftTask(task, exit)

\* duckduckgo_search in coroutine t from the call to its first
\* suspension: the key and the lookup.  On a fresh entry the copy is
\* annotated and, past ctx.debug, returned (which the caller is left
\* with).  Otherwise get_http_client is called and, past ctx.info,
\* http_client.post is invoked.
\* cache_key and cache_lookup are the locals `key` and `r`.
TaskLookup(t, req) ==
    /\ tasks[t].pc = "idle"
    /\ \E t2 \in ClockReads, suspends \in BOOLEAN, key \in {CacheKey(req)} :
         \E r \in {CacheGet(store, heap, now, t2, key, req.intent,
                            CachedBy(tasks, t))} :
           LET hit == r.found /\ r.fresh
               g == GetHttpClient(lifespan, clients)
               started == [IdleTask("none") EXCEPT
                              !.key = key, !.intent = req.intent,
                              !.query = req.query, !.found = r.found,
                              !.fresh = r.fresh,
                              !.age_seconds = r.age_seconds]
           IN  /\ r.found \/ t2 = now
               /\ hit \/ Fetches < MaxFetches
               /\ hit \/ Len(g.clients) <= MaxClients
               /\ store' = r.store
               /\ now' = t2
               /\ ticks' = TicksAt(t2)
               /\ IF hit
                  THEN /\ tasks' = [tasks EXCEPT ![t] =
                             IF suspends
                             THEN [started EXCEPT !.pc = "debug"]
                             ELSE LeftTask(started, "return")]
                       /\ UNCHANGED <<posts, lifespan, clients>>
                  ELSE /\ tasks' = [tasks EXCEPT ![t] =
                             [started EXCEPT
                                 !.pc = IF suspends THEN "info"
                                        ELSE "fetching",
                                 !.cached = r.ref,
                                 !.http_client = g.client,
                                 !.close_client = g.should_close]]
                       /\ posts' = IF suspends THEN posts ELSE posts + 1
                       /\ lifespan' = g.lifespan
                       /\ clients' = g.clients
               /\ heap' = Collect(r.heap,
                                  StoreRefs(r.store) \cup TaskRefs(tasks'))
               /\ UNCHANGED <<max_entries, held, lookup, last, call>>
               /\ UNCHANGED <<pureVars, orchVars, sandboxVars, server, pages>>

\* ctx.debug has completed in coroutine t: return cached_result.
TaskReturnHit(t) ==
    /\ tasks[t].pc = "debug"
    /\ tasks' = [tasks EXCEPT ![t] = LeftTask(tasks[t], "return")]
    /\ UNCHANGED <<cacheVars, lifespan, clients>>
    /\ UNCHANGED <<pureVars, orchVars, sandboxVars, server, pages>>

\* ctx.info has completed in coroutine t: http_client.post is invoked.
TaskPost(t) ==
    /\ tasks[t].pc = "info"
    /\ tasks' = [tasks EXCEPT ![t].pc = "fetching"]
    /\ posts' = posts + 1
    /\ UNCHANGED <<store, max_entries, heap, held, lookup, last, now, ticks,
                   call, lifespan, clients>>
    /\ UNCHANGED <<pureVars, orchVars, sandboxVars, server, pages>>

\* The response of coroutine t has arrived with status 200 and the
\* coroutine is suspended in a ctx.report_progress.
TaskProgress(t) ==
    /\ tasks[t].pc = "fetching"
    /\ tasks' = [tasks EXCEPT ![t].pc = "progress"]
    /\ UNCHANGED <<cacheVars, lifespan, clients>>
    /\ UNCHANGED <<pureVars, orchVars, sandboxVars, server, pages>>

\* The page of coroutine t parses into `results`: rerank, merge with the
\* stale payload of its own lookup, annotate, set; finally the client is
\* closed if it is to be closed, and past that the payload is returned.
TaskStore(t, results) ==
    \E suspends \in BOOLEAN :
        LET task == tasks[t]
            reranked == RerankResults(results)
            payload == Payload(PayloadResults(reranked, heap, task.cached),
                               task.intent,
                               FetchMeta(task.cached, task.age_seconds))
            obj == AllocRef(StoreRefs(store) \cup TaskRefs(tasks), CallerRef)
            after == AfterFinallyTask(task, "return", suspends)
        IN  /\ task.pc \in {"fetching", "progress"}
            /\ \E r \in {CacheSet(store, [heap EXCEPT ![obj] = payload],
                                  max_entries, now, task.key, task.intent,
                                  EmbedQuery(task.query), obj,
                                  TaskRefs([tasks EXCEPT ![t] = after]))} :
                   /\ store' = r.store
                   /\ heap' = r.heap
            /\ suspends => Closes(task)
            /\ tasks' = [tasks EXCEPT ![t] = after]
            /\ clients' = Finally(clients, task)
            /\ UNCHANGED <<max_entries, held, lookup, last, now, ticks, call,
                           posts, lifespan>>
            /\ UNCHANGED <<pureVars, orchVars, sandboxVars, server, pages>>

\* Something raises inside the try block of coroutine t (the post, the
\* status check, the parsing, or what is awaited on the way): nothing is
\* stored, the handler reports through ctx.error, finally the client is
\* closed if it is to be closed, and past that DuckDuckGoSearchError is
\* raised.
TaskFail(t) ==
    \E suspends \in BOOLEAN, closing \in BOOLEAN :
        LET task == tasks[t]
        IN  /\ task.pc \in {"info", "fetching", "progress"}
            /\ closing => (~suspends /\ Closes(task))
            /\ tasks' = [tasks EXCEPT ![t] =
                  IF suspends THEN [task EXCEPT !.pc = "error"]
                  ELSE AfterFinallyTask(task, "raise", closing)]
            /\ clients' = IF suspends THEN clients
                          ELSE Finally(clients, task)
            /\ heap' = Collect(heap, StoreRefs(store) \cup TaskRefs(tasks'))
            /\ UNCHANGED <<store, max_entries, held, lookup, last, now,
                           ticks, call, posts, lifespan>>
            /\ UNCHANGED <<pureVars, orchVars, sandboxVars, server, pages>>

\* ctx.error has completed in coroutine t: the finally block, then the
\* raise.
TaskError(t) ==
    \E closing \in BOOLEAN :
        LET task == tasks[t]
        IN  /\ task.pc = "error"
            /\ closing => Closes(task)
            /\ tasks' = [tasks EXCEPT ![t] =
                  AfterFinallyTask(task, "raise", closing)]
            /\ clients' = Finally(clients, task)
            /\ heap' = Collect(heap, StoreRefs(store) \cup TaskRefs(tasks'))
            /\ UNCHANGED <<store, max_entries, held, lookup, last, now,
                           ticks, call, posts, lifespan>>
            /\ UNCHANGED <<pureVars, orchVars, sandboxVars, server, pages>>

\* http_client.aclose() has completed in coroutine t: it leaves
\* duckduckgo_search the way it was about to.
TaskClosed(t) ==
    /\ tasks[t].pc = "closing"
    /\ tasks' = [tasks EXCEPT ![t] = LeftTask(tasks[t], tasks[t].exit)]
    /\ heap' = Collect(heap, StoreRefs(store) \cup TaskRefs(tasks'))
    /\ UNCHANGED <<store, max_entries, held, lookup, last, now, ticks, call,
                   posts, lifespan, clients>>
    /\ UNCHANGED <<pureVars, orchVars, sandboxVars, server, pages>>

\* summarize_webpage in coroutine t from the call to its first
\* suspension inside the inner try block (in ctx.progress or in
\* client.get): get_http_client has been called.
SummarizeStart(t) ==
    LET g == GetHttpClient(lifespan, clients)
    IN  /\ tasks[t].pc = "idle"
        /\ Fetches < MaxFetches
        /\ Len(g.clients) <= MaxClients
        /\ pages' = pages + 1
        /\ tasks' = [tasks EXCEPT ![t] =
              [IdleTask("none") EXCEPT !.pc = "summarizing",
                                       !.http_client = g.client,
                                       !.close_client = g.should_close]]
        /\ lifespan' = g.lifespan
        /\ clients' = g.clients
        /\ UNCHANGED cacheVars
        /\ UNCHANGED <<pureVars, orchVars, sandboxVars, server>>

\* Past the inner finally block of summarize_webpage, which has called
\* client.aclose() if should_close: the coroutine suspended there, or
\* past it, where a result is returned and an exception goes to the
\* outer handler, which reports through ctx.error and raises again.
AfterSummary(task, exit, closing, suspends) ==
    IF closing /\ task.close_client
    THEN [task EXCEPT !.pc = "summary closing", !.exit = exit]
    ELSE IF exit = "raise" /\ suspends
    THEN [task EXCEPT !.pc = "summary error", !.exit = exit]
    ELSE IdleTask(IF exit = "return" THEN "returned" ELSE "raised")

\* The inner try block of summarize_webpage in coroutine t ends, with
\* the result or with an exception (of the get, the status check or the
\* parsing).
SummarizeEnd(t, exit) ==
    \E closing \in BOOLEAN, suspends \in BOOLEAN :
        LET task == tasks[t]
        IN  /\ task.pc = "summarizing"
            /\ closing => task.close_client
            /\ suspends => (exit = "raise" /\ ~closing)
            /\ tasks' = [tasks EXCEPT ![t] =
                  AfterSummary(task, exit, closing, suspends)]
            /\ clients' = IF task.close_client
                          THEN [clients EXCEPT ![task.http_client] = "closed"]
                          ELSE clients
            /\ UNCHANGED <<cacheVars, lifespan>>
            /\ UNCHANGED <<pureVars, orchVars, sandboxVars, server, pages>>

\* client.aclose() has completed in summarize_webpage of coroutine t.
SummarizeClosed(t) ==
    \E suspends \in BOOLEAN :
        LET task == tasks[t]
        IN  /\ task.pc = "summary closing"
            /\ suspends => task.exit = "raise"
            /\ tasks' = [tasks EXCEPT ![t] =
                  AfterSummary(task, task.exit, FALSE, suspends)]
            /\ UNCHANGED <<cacheVars, lifespan, clients>>
            /\ UNCHANGED <<pureVars, orchVars, sandboxVars, server, pages>>

\* ctx.error has completed in summarize_webpage of coroutine t: raise.
SummarizeError(t) ==
    /\ tasks[t].pc = "summary error"
    /\ tasks' = [tasks EXCEPT ![t] = IdleTask("raised")]
    /\ UNCHANGED <<cacheVars, lifespan, clients>>
    /\ UNCHANGED <<pureVars, orchVars, sandboxVars, server, pages>>

\* SnapshotStore(): the capacity of the module's snapshot_store.
SnapshotStoreDefault == 200

\* What duckduckgo_get_details records of the page it has fetched when
\* capture_snapshot is set: the text has no title element.
DetailsSnapshot(t) ==
    Snapshot("https://example.com/0", "content 0",
             <<{<<"title", "No title">>, <<"domain", "example.com">>,
                <<"source", "duckduckgo_get_details">>}>>, t)

\* duckduckgo_get_details in coroutine t from the call to its first
\* suspension inside the `async with` block (in ctx.progress or in
\* client.get): it has made an httpx.AsyncClient of its own, whatever
\* the lifespan context holds.
DetailsStart(t) ==
    /\ tasks[t].pc = "idle"
    /\ Fetches < MaxFetches
    /\ Len(clients) < MaxClients
    /\ pages' = pages + 1
    /\ tasks' = [tasks EXCEPT ![t] =
          [IdleTask("none") EXCEPT !.pc = "details",
                                   !.http_client = Len(clients) + 1,
                                   !.close_client = TRUE]]
    /\ clients' = Append(clients, "open")
    /\ UNCHANGED <<cacheVars, lifespan>>
    /\ UNCHANGED <<pureVars, orchVars, sandboxVars, server>>

\* Past the `async with` block of duckduckgo_get_details, whose exit has
\* called client.aclose(): the coroutine suspended there, or past it,
\* where a result is returned and an exception goes to the handler,
\* which reports through ctx.error and raises again.
AfterDetails(task, exit, closing, suspends) ==
    IF closing
    THEN [task EXCEPT !.pc = "details closing", !.exit = exit]
    ELSE IF exit = "raise" /\ suspends
    THEN [task EXCEPT !.pc = "details error", !.exit = exit]
    ELSE IdleTask(IF exit = "return" THEN "returned" ELSE "raised")

\* The get of duckduckgo_get_details in coroutine t ends.  With a page
\* the snapshot is recorded if capture_snapshot is set, and then either
\* spider_links is awaited with the client (`spiders`: spider_depth > 0
\* and the page has links) or the result is returned and the block is
\* left.  An exception leaves the block: that of the get, the status
\* check or the parsing comes before the snapshot (`parsed` is false),
\* that of extract_related_links, which urlparse raises on a link it
\* cannot parse, after it.
DetailsEnd(t, exit, capture_snapshot, spiders) ==
    \E closing \in BOOLEAN, suspends \in BOOLEAN, parsed \in BOOLEAN :
        LET task == tasks[t]
            records == parsed /\ capture_snapshot
            snapshot == DetailsSnapshot(now)
        IN  /\ task.pc = "details"
            /\ exit = "return" => parsed
            /\ exit = "raise" => ~spiders
            /\ ~capture_snapshot => parsed = (exit = "return")
            /\ spiders => (~closing /\ ~suspends)
            /\ suspends => (exit = "raise" /\ ~closing)
            /\ records => Len(recorded) < MaxRecords
            /\ tasks' = [tasks EXCEPT ![t] =
                  IF spiders THEN [task EXCEPT !.pc = "spidering"]
                  ELSE AfterDetails(task, exit, closing, suspends)]
            /\ clients' = IF spiders THEN clients
                          ELSE [clients EXCEPT ![task.http_client] = "closed"]
            /\ entries' = IF records
                          THEN PruneIfNeeded(Append(entries, snapshot),
                                             snap_max)
                          ELSE entries
            /\ recorded' = IF records THEN Append(recorded, snapshot)
                           ELSE recorded
            /\ UNCHANGED <<cacheVars, lifespan, snap_max>>
            /\ UNCHANGED <<pureVars, orchVars, server, pages>>

\* spider_links, which catches what its fetches raise, has returned in
\* coroutine t: the result is returned and the block is left.
DetailsSpidered(t) ==
    \E closing \in BOOLEAN :
        LET task == tasks[t]
        IN  /\ task.pc = "spidering"
            /\ tasks' = [tasks EXCEPT ![t] =
                  AfterDetails(task, "return", closing, FALSE)]
            /\ clients' = [clients EXCEPT ![task.http_client] = "closed"]
            /\ UNCHANGED <<cacheVars, lifespan>>
            /\ UNCHANGED <<pureVars, orchVars, sandboxVars, server, pages>>

\* client.aclose() has completed in duckduckgo_get_details of
\* coroutine t.
DetailsClosed(t) ==
    \E suspends \in BOOLEAN :
        LET task == tasks[t]
        IN  /\ task.pc = "details closing"
            /\ suspends => task.exit = "raise"
            /\ tasks' = [tasks EXCEPT ![t] =
                  AfterDetails(task, task.exit, FALSE, suspends)]
            /\ UNCHANGED <<cacheVars, lifespan, clients>>
            /\ UNCHANGED <<pureVars, orchVars, sandboxVars, server, pages>>

\* ctx.error has completed in duckduckgo_get_details of coroutine t:
\* raise.
DetailsError(t) ==
    /\ tasks[t].pc = "details error"
    /\ tasks' = [tasks EXCEPT ![t] = IdleTask("raised")]
    /\ UNCHANGED <<cacheVars, lifespan, clients>>
    /\ UNCHANGED <<pureVars, orchVars, sandboxVars, server, pages>>

\* server.close_http_client(), which main schedules on the running loop
\* at a signal and calls after the server has stopped: if the module's
\* http_client is set it is closed, and past the await of aclose the
\* global is set to None.  The lifespan dict keeps the client, and the
\* tool calls that are suspended keep theirs.
CloseHttpClient ==
    \E suspends \in BOOLEAN :
        /\ server.http_client # NoClient
        /\ clients' = [clients EXCEPT ![server.http_client] = "closed"]
        /\ server' = IF suspends
                      THEN [server EXCEPT !.closing = TRUE]
                      ELSE [server EXCEPT !.http_client = NoClient,
                                          !.closing = FALSE]
        /\ UNCHANGED <<cacheVars, tasks, lifespan>>
        /\ UNCHANGED <<pureVars, orchVars, sandboxVars, pages>>

\* http_client.aclose() has completed in close_http_client:
\* http_client = None.
CloseHttpClientDone ==
    /\ server.closing
    /\ server' = [server EXCEPT !.http_client = NoClient, !.closing = FALSE]
    /\ UNCHANGED <<cacheVars, tasks, lifespan, clients>>
    /\ UNCHANGED <<pureVars, orchVars, sandboxVars, pages>>

\* app_lifespan is left: its finally block closes the module's
\* http_client if that is set.
AppLifespanExit ==
    /\ server.up
    /\ clients' = IF server.http_client # NoClient
                   THEN [clients EXCEPT ![server.http_client] = "closed"]
                   ELSE clients
    /\ server' = [server EXCEPT !.up = FALSE]
    /\ UNCHANGED <<cacheVars, tasks, lifespan>>
    /\ UNCHANGED <<pureVars, orchVars, sandboxVars, pages>>

\* Everything but the cache, the clock, the coroutines and the snapshot
\* store, at rest.
RestIdle ==
    /\ held = NoRef
    /\ lookup = NoLookup
    /\ last = NoLast
    /\ call = Idle("none")
    /\ args = NoArgs
    /\ ret = <<>>
    /\ plan = NoPlan
    /\ run = NoRun
    /\ dicts = NoDicts
    /\ calls = <<>>

\* The snapshot store of a server before the first request.
ServerSandbox ==
    /\ entries = <<>>
    /\ snap_max = SnapshotStoreDefault
    /\ recorded = <<>>

\* The request of the searches that run at a time: they share a key.
SameKeyRequests == {Params(<<"a", "b">>, "news")}

\* The requests made of a cache of capacity max: of two keys where one
\* entry fits, so that a store evicts the entry of the other key; of one
\* key otherwise, so that the searches refresh the same entry beside
\* each other.
RequestsFor(max) == IF max = 1 THEN TaskRequests ELSE SameKeyRequests

\* The coroutine that makes one call after the other.
First == "t1"

\* Two coroutines in a running server: a cache of any of the
\* capacities, the module's snapshot store and the client the server
\* made at startup, before the first request.
InitTasks ==
    /\ store = <<>>
    /\ max_entries \in 1..MaxCapacity
    /\ heap = [r \in Refs |-> FreeCell]
    /\ now = 0
    /\ ticks = 0
    /\ posts = 0
    /\ RestIdle
    /\ ServerSandbox
    /\ tasks = [t \in TaskIds |-> IdleTask("none")]
    /\ lifespan = ServerLifespan
    /\ clients = <<"open">>
    /\ server = RunningServer
    /\ pages = 0

\* The tool calls of the two coroutines and the shutdown of the server.
\* With the server's client in the lifespan dict get_http_client hands
\* out that client and close_client is False, so that neither a search
\* nor a summary comes to await aclose.  duckduckgo_get_details is called
\* with its default arguments: no snapshot, no spidering.
NextTasks ==
    \/ \E t \in TaskIds, req \in RequestsFor(max_entries) :
           TaskLookup(t, req)
    \/ \E t \in TaskIds : TaskReturnHit(t)
    \/ \E t \in TaskIds : TaskPost(t)
    \/ \E t \in TaskIds : TaskProgress(t)
    \/ \E t \in TaskIds, results \in TaskOutputs : TaskStore(t, results)
    \/ \E t \in TaskIds : TaskFail(t)
    \/ \E t \in TaskIds : TaskError(t)
    \/ \E t \in TaskIds : SummarizeStart(t)
    \/ \E t \in TaskIds, exit \in {"return", "raise"} : SummarizeEnd(t, exit)
    \/ \E t \in TaskIds : SummarizeError(t)
    \/ \E t \in TaskIds : DetailsStart(t)
    \/ \E t \in TaskIds, exit \in {"return", "raise"} :
           DetailsEnd(t, exit, FALSE, FALSE)
    \/ \E t \in TaskIds : DetailsClosed(t)
    \/ \E t \in TaskIds : DetailsError(t)
    \/ CloseHttpClient
    \/ CloseHttpClientDone
    \/ AppLifespanExit
    \/ Tick

SpecTasks == InitTasks /\ [][NextTasks]_vars

\* One search at a time, each with a client of its own: a cache of any
\* of the capacities and a ctx without lifespan mapping, before the first
\* request.
InitSerial ==
    /\ store = <<>>
    /\ max_entries \in 1..MaxCapacity
    /\ heap = [r \in Refs |-> FreeCell]
    /\ now = 0
    /\ ticks = 0
    /\ posts = 0
    /\ RestIdle
    /\ SandboxIdle
    /\ tasks = [t \in TaskIds |-> IdleTask("none")]
    /\ lifespan = NoLifespan
    /\ clients = <<>>
    /\ server = NoServer
    /\ pages = 0

NextSerial ==
    \/ \E req \in TaskRequests : TaskLookup(First, req)
    \/ TaskReturnHit(First)
    \/ TaskPost(First)
    \/ TaskProgress(First)
    \/ \E results \in TaskOutputs : TaskStore(First, results)
    \/ TaskFail(First)
    \/ TaskError(First)
    \/ TaskClosed(First)
    \/ Tick

SpecSerial == InitSerial /\ [][NextSerial]_vars

\* The page of the searches that run beside summarize_webpage.
ClientOutputs == {<<RA>>}

\* Two coroutines with any of the lifespan contexts, the server running
\* where the context is the server's: a cache of capacity one and the
\* module's snapshot store, before the first request.
InitClients ==
    /\ store = <<>>
    /\ max_entries = 1
    /\ heap = [r \in Refs |-> FreeCell]
    /\ now = 0
    /\ ticks = 0
    /\ posts = 0
    /\ RestIdle
    /\ ServerSandbox
    /\ tasks = [t \in TaskIds |-> IdleTask("none")]
    /\ lifespan \in Lifespans
    /\ clients = IF lifespan.http_client = NoClient THEN <<>> ELSE <<"open">>
    /\ server = ServerOf(lifespan)
    /\ pages = 0

NextClients ==
    \/ \E t \in TaskIds, req \in SameKeyRequests : TaskLookup(t, req)
    \/ \E t \in TaskIds : TaskReturnHit(t)
    \/ \E t \in TaskIds : TaskPost(t)
    \/ \E t \in TaskIds : TaskProgress(t)
    \/ \E t \in TaskIds, results \in ClientOutputs : TaskStore(t, results)
    \/ \E t \in TaskIds : TaskFail(t)
    \/ \E t \in TaskIds : TaskError(t)
    \/ \E t \in TaskIds : TaskClosed(t)
    \/ \E t \in TaskIds : SummarizeStart(t)
    \/ \E t \in TaskIds, exit \in {"return", "raise"} : SummarizeEnd(t, exit)
    \/ \E t \in TaskIds : SummarizeClosed(t)
    \/ \E t \in TaskIds : SummarizeError(t)
    \/ \E t \in TaskIds : DetailsStart(t)
    \/ \E t \in TaskIds, exit \in {"return", "raise"},
          capture_snapshot \in BOOLEAN, spiders \in BOOLEAN :
           DetailsEnd(t, exit, capture_snapshot, spiders)
    \/ \E t \in TaskIds : DetailsSpidered(t)
    \/ \E t \in TaskIds : DetailsClosed(t)
    \/ \E t \in TaskIds : DetailsError(t)
    \/ CloseHttpClient
    \/ CloseHttpClientDone
    \/ AppLifespanExit
    \/ Tick

SpecClients == InitClients /\ [][NextClients]_vars

-----------------------------------------------------------------------------
\* MultiHopPlan: validation and topological sort.

\* The most hops a modelled plan is constructed from.
MaxHops == 3

\* The lists of at most n modelled hops.
RECURSIVE HopLists(_)
HopLists(n) ==
    IF n = 0 THEN {<<>>}
    ELSE LET shorter == HopLists(n - 1)
         IN  shorter \cup {Append(q, h) : q \in {x \in shorter : Len(x) = n - 1},
                                          h \in HopChoices}

\* set(t) of a tuple
SetOf(t) == {t[i] : i \in DOMAIN t}

\* {hop.name for hop in hop_list}
NameSet(hops) == {hops[i].name : i \in DOMAIN hops}

\* The first hop of the list that depends on a name outside the list.
FirstWithMissing(hops) ==
    hops[CHOOSE i \in DOMAIN hops :
            /\ SetOf(hops[i].depends_on) \ NameSet(hops) # {}
            /\ \A j \in 1..(i - 1) :
                   SetOf(hops[j].depends_on) \ NameSet(hops) = {}]

\* __init__ without the check of the names' uniqueness (a faulty variant).
ValidationErrorNoUnique(hops) ==
    IF hops = <<>> THEN "MultiHopPlan requires at least one hop"
    ELSE IF \E i \in DOMAIN hops :
                SetOf(hops[i].depends_on) \ NameSet(hops) # {}
    THEN "Hop '" \o FirstWithMissing(hops).name
             \o "' depends on unknown hops"
    ELSE ""

\* The ValueError that __init__ raises before it sorts ("" if none).
ValidationError(hops) ==
    IF hops = <<>> THEN "MultiHopPlan requires at least one hop"
    ELSE IF Cardinality(NameSet(hops)) # Len(hops)
    THEN "Hop names must be unique"
    ELSE IF \E i \in DOMAIN hops :
                SetOf(hops[i].depends_on) \ NameSet(hops) # {}
    THEN "Hop '" \o FirstWithMissing(hops).name
             \o "' depends on unknown hops"
    ELSE ""

\* {hop.name: hop for hop in hops}: a dict keeps a name at the place of
\* its first insertion, with the value of its last.
RECURSIVE DictOf(_)
DictOf(hops) ==
    IF hops = <<>> THEN <<>>
    ELSE LET front == DictOf(SubSeq(hops, 1, Len(hops) - 1))
             hop == hops[Len(hops)]
         IN  IF \E i \in DOMAIN front : front[i].name = hop.name
             THEN [i \in DOMAIN front |->
                      IF front[i].name = hop.name THEN hop ELSE front[i]]
             ELSE Append(front, hop)

\* pending.pop(name)
PopName(pending, name) ==
    SelectSeq(pending, LAMBDA h : h.name # name)

\* pending.items() read from the last insertion back (a faulty variant).
ItemsReversed(pending) ==
    [i \in DOMAIN pending |-> pending[Len(pending) + 1 - i]]

\* list(pending.items()): the pending hops in insertion order.
Items(pending) == pending

\* The test that lets a hop depend on itself (a faulty variant).
EligibleButForItself(hop, resolved) ==
    SetOf(hop.depends_on) \ {hop.name} \subseteq resolved

\* set(hop.depends_on).issubset(resolved)
Eligible(hop, resolved) == SetOf(hop.depends_on) \subseteq resolved

\* order.insert(0, hop) in place of the append (a faulty variant).
PrependOrder(order, hop) == <<hop>> \o order

\* order.append(hop)
AppendOrder(order, hop) == Append(order, hop)

\* __init__ up to the call of _topological_sort: the three checks, then
\* pending, resolved and order are set up.
PlanValidate ==
    /\ plan.pc = "new"
    /\ LET err == ValidationError(plan.hops)
       IN  plan' = IF err # ""
                   THEN [plan EXCEPT !.pc = "failed", !.error = err]
                   ELSE [plan EXCEPT !.pc = "while",
                                     !.pending = DictOf(plan.hops),
                                     !.resolved = {},
                                     !.order = <<>>]
    /\ UNCHANGED <<cacheVars, pureVars, sideVars, run, dicts, calls>>

\* `while pending:` and the start of a pass, or the return of the order.
SortWhile ==
    /\ plan.pc = "while"
    /\ plan' = IF plan.pending = <<>>
               THEN [plan EXCEPT !.pc = "built"]
               ELSE [plan EXCEPT !.pc = "for",
                                 !.progress = FALSE,
                                 !.items = Items(plan.pending),
                                 !.at = 1,
                                 !.passes = @ + 1]
    /\ UNCHANGED <<cacheVars, pureVars, sideVars, run, dicts, calls>>

\* One iteration of `for name, hop in list(pending.items())`.
SortFor ==
    /\ plan.pc = "for"
    /\ plan.at <= Len(plan.items)
    /\ LET hop == plan.items[plan.at]
       IN  plan' = IF Eligible(hop, plan.resolved)
                   THEN [plan EXCEPT !.order = AppendOrder(@, hop),
                                     !.resolved = @ \cup {hop.name},
                                     !.pending = PopName(@, hop.name),
                                     !.progress = TRUE,
                                     !.at = @ + 1]
                   ELSE [plan EXCEPT !.at = @ + 1]
    /\ UNCHANGED <<cacheVars, pureVars, sideVars, run, dicts, calls>>

\* The end of a pass: without progress the cycle error is raised.
SortEndFor ==
    /\ plan.pc = "for"
    /\ plan.at > Len(plan.items)
    /\ plan' = IF plan.progress
               THEN [plan EXCEPT !.pc = "while"]
               ELSE [plan EXCEPT !.pc = "failed",
                                 !.error = "Cycle detected in hop dependencies"]
    /\ UNCHANGED <<cacheVars, pureVars, sideVars, run, dicts, calls>>

-----------------------------------------------------------------------------
\* MultiHopOrchestrator.execute.

\* The order read from its end (a faulty variant).
OrderedHopsReversed(p) ==
    [i \in DOMAIN p.order |-> p.order[Len(p.order) + 1 - i]]

\* plan.ordered_hops()
OrderedHops(p) == p.order

\* `shared_state or {}`: None and an empty dict are both falsy.
StateFor(shared, d) ==
    IF shared = NoDict \/ d[shared] = {} THEN NewDict ELSE shared

\* HopResult(hop, output, metadata)
HopResult(hop, output) ==
    [hop |-> hop, output |-> output,
     metadata |-> [dependencies |-> hop.depends_on, tool |-> hop.tool]]

\* The names that results has a value for.
ResultNames(results) == {r.hop.name : r \in results}

\* results[name]
ResultOf(results, name) == CHOOSE r \in results : r.hop.name = name

\* An assignment that drops the other results (a faulty variant).
PutResultAlone(results, r) == {r}

\* results[hop.name] = hop_result
PutResult(results, r) ==
    {x \in results : x.hop.name # r.hop.name} \cup {r}

\* The outputs of all the hops that have run (a faulty variant).
AllOutputs(hop, results) ==
    {<<r.hop.name, r.output>> : r \in results}

\* {name: results[name].output for name in hop.depends_on}
DependencyOutputs(hop, results) ==
    {<<n, ResultOf(results, n).output>> : n \in SetOf(hop.depends_on)}

\* An injection that replaces what params supplies (a faulty variant).
InjectOver(params, signature, name, value) ==
    IF name \in signature THEN [params EXCEPT ![name] = <<value>>]
    ELSE params

\* An injection that does not look at the signature (a faulty variant).
InjectUnasked(params, signature, name, value) ==
    IF params[name] = Absent THEN [params EXCEPT ![name] = <<value>>]
    ELSE params

\* if name in signature.parameters and name not in params:
\*     params[name] = value
Inject(params, signature, name, value) ==
    IF name \in signature /\ params[name] = Absent
    THEN [params EXCEPT ![name] = <<value>>]
    ELSE params

\* _build_invocation_params: the hop's own params, and ctx, dependencies
\* and state for an operation that declares them, unless params has them.
BuildInvocationParams(tool, hop, dependency_outputs, state) ==
    LET signature == Signature(tool)
        p1 == Inject(hop.params, signature, "ctx", Ctx)
        p2 == Inject(p1, signature, "dependencies", dependency_outputs)
    IN  Inject(p2, signature, "state", state)

\* An exception that is caught and the loop carried on (a faulty variant).
Swallowed(r, exception) ==
    [r EXCEPT !.pc = "loop", !.rest = Tail(@)]

\* An exception leaves execute: nothing is returned.
Raised(r, exception) ==
    [r EXCEPT !.pc = "raised", !.error = exception]

\* A lookup that finds an operation for every name (a faulty variant).
RegisteredAnyway(registry, tool_name) == TRUE

\* _resolve_tool: self._tools[tool_name] finds an operation.
Registered(registry, tool_name) == tool_name \in registry

\* the ValueError that _resolve_tool raises
NotRegistered(tool_name) == "Tool '" \o tool_name \o "' is not registered"

\* execute is called on a constructed plan: state, results and trace.
Execute(registry, shared, contents) ==
    /\ plan.pc = "built"
    /\ run.pc = "idle"
    /\ shared = NoDict => contents = {}
    /\ dicts' = IF shared = NoDict THEN dicts
                ELSE [dicts EXCEPT ![shared] = contents]
    /\ run' = [pc |-> "loop", registry |-> registry, shared |-> shared,
               state |-> StateFor(shared, dicts'),
               rest |-> OrderedHops(plan), results |-> {}, trace |-> <<>>,
               error |-> ""]
    /\ UNCHANGED <<cacheVars, pureVars, sideVars, plan, calls>>

\* The loop body up to the call of the operation: the tool is resolved,
\* the dependency outputs are collected and the operation is invoked.
HopStart ==
    /\ run.pc = "loop"
    /\ run.rest # <<>>
    /\ LET hop == Head(run.rest)
       IN  IF ~Registered(run.registry, hop.tool)
           THEN /\ run' = Raised(run, NotRegistered(hop.tool))
                /\ UNCHANGED calls
           ELSE IF ~(SetOf(hop.depends_on) \subseteq ResultNames(run.results))
           THEN /\ run' = Raised(run, "KeyError")
                /\ UNCHANGED calls
           ELSE /\ run' = [run EXCEPT !.pc = "awaiting"]
                /\ calls' = Append(calls,
                      [hop |-> hop.name, tool |-> hop.tool, done |-> FALSE,
                       params |-> BuildInvocationParams(hop.tool, hop,
                                      DependencyOutputs(hop, run.results),
                                      run.state)])
    /\ UNCHANGED <<cacheVars, pureVars, sideVars, plan, dicts>>

\* The awaited operation completes: it has written its name into the
\* state it was passed, and it returns its output or raises.
HopFinish(raises) ==
    /\ run.pc = "awaiting"
    /\ LET hop == Head(run.rest)
           passed == calls[Len(calls)].params
       IN  /\ calls' = [calls EXCEPT ![Len(calls)].done = TRUE]
           /\ dicts' = IF passed.state = Absent THEN dicts
                       ELSE [dicts EXCEPT ![passed.state[1]] =
                                              @ \cup {hop.name}]
           /\ run' = IF raises
                     THEN Raised(run, Failure(hop.name))
                     ELSE [run EXCEPT
                             !.pc = "loop",
                             !.rest = Tail(@),
                             !.results =
                                 PutResult(@, HopResult(hop, Output(hop.name))),
                             !.trace = Append(@,
                                 [hop |-> hop.name, tool |-> hop.tool,
                                  depends_on |-> hop.depends_on])]
    /\ UNCHANGED <<cacheVars, pureVars, sideVars, plan>>

\* return OrchestrationResult(results=results, trace=trace)
Return ==
    /\ run.pc = "loop"
    /\ run.rest = <<>>
    /\ run' = [run EXCEPT !.pc = "returned"]
    /\ UNCHANGED <<cacheVars, pureVars, sideVars, plan, dicts, calls>>

\* MultiHopPlan is called on a list of hops; the cache plays no part.
InitOrch ==
    /\ store = <<>>
    /\ max_entries = 1
    /\ heap = [r \in Refs |-> FreeCell]
    /\ held = NoRef
    /\ lookup = NoLookup
    /\ last = NoLast
    /\ now = 0
    /\ ticks = 0
    /\ call = Idle("none")
    /\ posts = 0
    /\ args = NoArgs
    /\ ret = <<>>
    /\ \E hops \in HopLists(MaxHops) :
           plan = [NoPlan EXCEPT !.pc = "new", !.hops = hops]
    /\ run = NoRun
    /\ dicts = NoDicts
    /\ calls = <<>>
    /\ SideIdle

NextOrch ==
    \/ PlanValidate
    \/ SortWhile
    \/ SortFor
    \/ SortEndFor
    \/ \E registry \in Registries, shared \in {NoDict, CallerDict},
          contents \in SharedContents :
           Execute(registry, shared, contents)
    \/ HopStart
    \/ \E raises \in BOOLEAN : HopFinish(raises)
    \/ Return

SpecOrch == InitOrch /\ [][NextOrch]_vars

-----------------------------------------------------------------------------
\* The static method _build_invocation_params, called on its own.

\* The dict a hop's params can carry under the name "state".
HopDict == "hop's dict"

\* The params a hop declares: any of the names, each with its own value.
HopParams ==
    [ctx : {Absent, <<"hop's ctx">>},
     dependencies : {Absent, <<ExplicitDependencies>>},
     state : {Absent, <<HopDict>>},
     query : {Absent, <<"q">>}]

\* The dependency outputs that execute has collected for a hop.
CollectedOutputs == {{}, {<<"search", Output("search")>>}}

\* _build_invocation_params is called for a hop and its operation.
BuildInvocationParamsCall ==
    /\ args.fn = "_build_invocation_params"
    /\ ret = <<>>
    /\ ret' = <<BuildInvocationParams(args.hop.tool, args.hop,
                                      args.dependency_outputs, args.state)>>
    /\ UNCHANGED <<cacheVars, args, orchVars, sideVars>>

\* One call, on any hop and any of the collected outputs and states.
InitParams ==
    /\ store = <<>>
    /\ max_entries = 1
    /\ heap = [r \in Refs |-> FreeCell]
    /\ held = NoRef
    /\ lookup = NoLookup
    /\ last = NoLast
    /\ now = 0
    /\ ticks = 0
    /\ call = Idle("none")
    /\ posts = 0
    /\ plan = NoPlan
    /\ run = NoRun
    /\ dicts = NoDicts
    /\ calls = <<>>
    /\ SideIdle
    /\ ret = <<>>
    /\ \E name \in HopNames, params \in HopParams,
          outputs \in CollectedOutputs, state \in {CallerDict, NewDict} :
           args = [fn |-> "_build_invocation_params",
                   hop |-> [Hop(name, <<>>, Absent) EXCEPT !.params = params],
                   dependency_outputs |-> outputs,
                   state |-> state]

NextParams == BuildInvocationParamsCall

SpecParams == InitParams /\ [][NextParams]_vars


-----------------------------------------------------------------------------
\* What the properties are stated with.

\* The keys of a store, least recently used first.
KeySeq(s) == [i \in DOMAIN s |-> s[i].key]

\* A sequence without the occurrences of x.
Without(q, x) == SelectSeq(q, LAMBDA y : y # x)

\* The last n elements of a sequence.
LastN(q, n) == IF Len(q) <= n THEN q ELSE SubSeq(q, Len(q) - n + 1, Len(q))

\* The entry a store holds for a key it holds.
EntryOf(s, key) == s[CHOOSE i \in DOMAIN s : s[i].key = key]

\* The freshness windows as the specification lists them, in seconds.
SpecTtl(intent) ==
    CASE intent = "news" -> 900
      [] intent = "technical" -> 86400
      [] intent = "shopping" -> 21600
      [] intent = "academic" -> 129600
      [] intent = "finance" -> 10800
      [] intent = "local" -> 7200
      [] OTHER -> 21600

-----------------------------------------------------------------------------
\* C1: the store never holds more than max_entries entries, and a set
\* leaves the max_entries most recently used keys: the keys before the
\* call in recency order, the key just set moved behind them, cut at the
\* least recently used end.
C1_EvictionBound ==
    /\ [](Len(store) <= max_entries)
    /\ [][last'.op = "set" =>
            KeySeq(store') =
                LastN(Append(Without(KeySeq(store), last'.key), last'.key),
                      max_entries)]_vars

\* A set on a full cache of capacity 2 has pushed a key out.
C1_Witness ==
    /\ last.op = "set"
    /\ last.dropped # {}
    /\ max_entries = 2
    /\ Len(store) = max_entries

\* C2: a get that finds a fresh entry moves it to the most recently used
\* end; a get that finds a stale entry returns its payload and leaves the
\* whole store as it was, so that the entry keeps its place in the
\* eviction order.
C2_StaleGetKeepsRecency ==
    [][lookup'.op = "found" =>
         IF lookup'.fresh
         THEN KeySeq(store') =
                  Append(Without(KeySeq(store), lookup'.key), lookup'.key)
         ELSE /\ store' = store
              /\ lookup'.payload =
                     heap[EntryOf(store, lookup'.key).payload]]_vars

\* A stale entry has been read and is still the next one to be evicted,
\* ahead of an entry behind it.
C2_Witness ==
    /\ lookup.op = "found"
    /\ ~lookup.fresh
    /\ Len(store) = 2
    /\ store[1].key = lookup.key

\* C3: a get that is called when the clock shows `now` reports an entry
\* fresh exactly when now - created_at does not exceed the TTL of the
\* intent passed to get; for "news" 900 is fresh and 901 is stale.  The
\* age it reports is read from the clock after that test and is never
\* less.
C3_FreshnessBoundary ==
    [][\A key \in KeySet, intent \in GetIntents :
         (Get(key, intent) /\ key \in StoreKeys(store)) =>
             LET created_at == EntryOf(store, key).created_at
                 age == now - created_at
             IN  /\ lookup'.op = "found"
                 /\ lookup'.fresh <=> (age <= SpecTtl(intent))
                 /\ (intent = "news" /\ age = 900) => lookup'.fresh
                 /\ (intent = "news" /\ age = 901) => ~lookup'.fresh
                 /\ lookup'.age_seconds = now' - created_at
                 /\ lookup'.age_seconds >= age
      ]_vars

\* An entry is read with intent "news" at the age of exactly 900 seconds.
C3_Witness ==
    /\ lookup.op = "found"
    /\ lookup.intent = "news"
    /\ lookup.age_seconds = 900
    /\ lookup.fresh

-----------------------------------------------------------------------------
\* C9: the store holds at most one entry per key, and a set on a key it
\* holds replaces that entry as a whole (payload, intent, signature, and
\* created_at = now) at the most recently used end, while the number of
\* entries, the other entries, their order and their payloads stay as
\* they were.
C9_SetReplacesWhole ==
    /\ [](\A i, j \in DOMAIN store : store[i].key = store[j].key => i = j)
    /\ [][\A key \in KeySet, a \in SetInputs :
            (Set(key, a[1], a[2], a[3]) /\ key \in StoreKeys(store)) =>
                LET e == store'[Len(store')]
                    before == SelectSeq(store, LAMBDA x : x.key # key)
                    after == SubSeq(store', 1, Len(store') - 1)
                IN  /\ Len(store') = Len(store)
                    /\ e.key = key
                    /\ e.intent = a[1]
                    /\ e.embedding_signature = a[2]
                    /\ heap'[e.payload] = a[3]
                    /\ e.created_at = now
                    /\ after = before
                    /\ \A i \in DOMAIN before :
                           heap'[before[i].payload] = heap[before[i].payload]
         ]_vars

\* A key of a two-entry store has been set again, later than its first set.
C9_Witness ==
    /\ last.op = "set"
    /\ last.replaced
    /\ Len(store) = 2
    /\ store[1].created_at < store[2].created_at

\* Two characters are the same letter, whatever their case.
SameLetter(a, b) ==
    \/ a = b
    \/ {a, b} \in {{"a", "A"}, {"b", "B"}, {"c", "C"}}

\* text contains part, case-insensitively.
ContainsNoCase(text, part) ==
    \E i \in 0..(Len(text) - Len(part)) :
        \A j \in 1..Len(part) : SameLetter(text[i + j], part[j])

\* Some result of the payload has a domain that contains the given one,
\* case-insensitively; a result without a domain has the empty one.
PayloadHasDomain(p, domain) ==
    \E j \in DOMAIN p.results :
        ContainsNoCase(IF p.results[j].domain = DomNone
                       THEN <<>> ELSE p.results[j].domain,
                       domain)

\* C10: mark_domain_stale removes exactly the entries whose payload has a
\* result of a matching domain; the others stay, in the same order, with
\* the same fields and the same payload.
C10_MarkDomainStaleExact ==
    [][\A domain \in DomainInputs :
         MarkDomainStale(domain) =>
             LET Stays(x) == ~PayloadHasDomain(heap[x.payload], domain)
                 kept == SelectSeq(store, Stays)
             IN  /\ store' = kept
                 /\ \A i \in DOMAIN kept :
                        heap'[kept[i].payload] = heap[kept[i].payload]
      ]_vars

\* mark_domain_stale has removed an entry and kept another.
C10_Witness ==
    /\ last.op = "mark_domain_stale"
    /\ last.dropped # {}
    /\ store # <<>>

-----------------------------------------------------------------------------
\* Claims about the search workflow, stated on its two steps: the lookup
\* step (SearchLookup) and the completion of a fetch (SearchStore).

\* The payload the cache holds for a key it holds.
StoredPayload(s, h, key) == h[EntryOf(s, key).payload]

\* The entry for the request's key exists and is within the TTL of the
\* request's intent.
WithinTtl(req) ==
    /\ CacheKey(req) \in StoreKeys(store)
    /\ now - EntryOf(store, CacheKey(req)).created_at <= SpecTtl(req.intent)

\* The payload a call has returned or, while it is suspended on its way
\* out, is about to return.
Answer == IF call.pc = "idle" THEN held ELSE call.payload

\* The step takes a call from its fetch past the set: it returns, or is
\* suspended on its way to the return.
Storing ==
    /\ call.pc \in {"fetching", "progress"}
    /\ \/ call'.pc = "idle" /\ call'.outcome = "returned"
       \/ call'.pc = "closing" /\ call'.exit = "return"

\* C4: a request whose key has no entry goes on to one external fetch,
\* reports "miss" and stores what it returns; a request whose entry is
\* within its TTL returns "hit" without any external fetch.  The fetch
\* count rises by one where the post is invoked, and nowhere else.
C4_HitWithoutFetch ==
    [][/\ \A req \in Requests :
            SearchLookup(req) =>
                /\ WithinTtl(req) =>
                       /\ posts' = posts
                       /\ call'.pc \in {"idle", "debug"}
                       /\ call'.fresh
                       /\ heap'[Answer'].cache_metadata.status = "hit"
                /\ CacheKey(req) \notin StoreKeys(store) =>
                       /\ call'.pc \in {"info", "fetching"}
                       /\ ~call'.found
       /\ call.pc = "debug" =>
              /\ posts' = posts
              /\ call'.pc \in {"debug", "idle"}
              /\ call'.pc = "idle" =>
                     /\ call'.outcome = "returned"
                     /\ held' = call.payload
                     /\ heap'[held'] = heap[call.payload]
       /\ posts' # posts =>
              /\ posts' = posts + 1
              /\ call.pc \in {"idle", "info"}
              /\ call'.pc = "fetching"
       /\ (call.pc # "fetching" /\ call'.pc = "fetching") =>
              posts' = posts + 1
       /\ (Storing /\ ~call.found) =>
                /\ posts' = posts
                /\ heap'[Answer'].cache_metadata.status = "miss"
                /\ CacheKey(call.req) \in StoreKeys(store')
                /\ StoredPayload(store', heap', CacheKey(call.req))
                       = heap'[Answer']
       /\ (call.pc = "closing" /\ call.exit = "return"
              /\ call'.pc = "idle") =>
              /\ call'.outcome = "returned"
              /\ held' = call.payload
              /\ heap'[held'] = heap[call.payload]
      ]_vars

\* A request has been answered from the cache after exactly one fetch.
C4_Witness ==
    /\ call.pc = "idle"
    /\ call.outcome = "returned"
    /\ held # NoRef
    /\ heap[held].cache_metadata.status = "hit"
    /\ posts = 1

\* The elements of a sequence.
Range(q) == {q[i] : i \in DOMAIN q}

\* The values of "url" in a result list.
Urls(results) == {results[i].url : i \in DOMAIN results}

\* The elements of q at the positions in I, in order.
AtPositions(q, I) ==
    [k \in 1..Cardinality(I) |->
        q[CHOOSE i \in I : Cardinality({j \in I : j <= i}) = k]]

\* A list deduplicated by the value of "url", first occurrence kept.
DedupByUrl(q) ==
    AtPositions(q, {i \in DOMAIN q : \A j \in 1..(i - 1) : q[j].url # q[i].url})

\* The same, with the results that have no URL left out.
DedupByUrlDropEmpty(q) ==
    AtPositions(q, {i \in DOMAIN q :
                       /\ q[i].url # ""
                       /\ \A j \in 1..(i - 1) : q[j].url # q[i].url})

\* The results of the stale payload a running call keeps for the merge.
StaleResults == IF call.cached = NoRef THEN <<>> ELSE heap[call.cached].results

\* A fetch completes for a call that found a stale entry with results.
\* (The counterexample to the statement of C5 as it stands.)
C5_Original ==
    [][\A results \in FetchOutputs :
         (Storing /\ StaleResults # <<>> /\ SearchStore(results)) =>
             LET fresh == RerankResults(results)
                 out == heap'[Answer'].results
             IN  /\ out = DedupByUrl(fresh \o StaleResults)
                 /\ Range(fresh) \subseteq Range(out)
      ]_vars

\* C5 (amended): with a stale payload that has results, the list stored
\* and returned is the reranked fresh results followed by the stale ones,
\* without the results that have no URL, deduplicated by URL with the
\* first occurrence kept: for every URL among the fresh results the first
\* fresh result with that URL is the one kept.  Without a cached payload,
\* or with one that has no results, the reranked fresh results are used
\* as they are.
C5_MergeFreshFirst ==
    [][\A results \in FetchOutputs :
         (Storing /\ SearchStore(results)) =>
             LET fresh == RerankResults(results)
                 out == heap'[Answer'].results
                 key == CacheKey(call.req)
             IN  /\ StoredPayload(store', heap', key).results = out
                 /\ IF StaleResults # <<>>
                    THEN /\ out = DedupByUrlDropEmpty(fresh \o StaleResults)
                         /\ \A i \in DOMAIN fresh :
                              (/\ fresh[i].url # ""
                               /\ \A j \in 1..(i - 1) :
                                      fresh[j].url # fresh[i].url)
                              => fresh[i] \in Range(out)
                    ELSE out = fresh
      ]_vars

\* A refresh has put the new version of u1 in front of the cached u2.
C5_Witness ==
    /\ call.outcome = "returned"
    /\ held # NoRef
    /\ heap[held].cache_metadata.status = "refresh"
    /\ heap[held].results = <<RA2, RB>>

\* Every value of "url" of the stale results is in the stored entry.
\* (The counterexample to the statement of C6 as it stands.)
C6_Original ==
    [][(Storing /\ call.found) =>
             Urls(StaleResults) \subseteq
                 Urls(StoredPayload(store', heap', CacheKey(call.req)).results)
      ]_vars

\* C6 (amended): when a call that found a stale entry completes its
\* fetch, the entry stored for the key has every non-empty URL of the
\* stale entry's results, whatever the fetch returned.
C6_RefreshKeepsUrls ==
    [][(Storing /\ call.found) =>
             /\ CacheKey(call.req) \in StoreKeys(store')
             /\ Urls(StaleResults) \ {""} \subseteq
                  Urls(StoredPayload(store', heap', CacheKey(call.req)).results)
      ]_vars

\* A refresh whose fetch returned nothing has stored the cached results.
C6_Witness ==
    /\ call.outcome = "returned"
    /\ held # NoRef
    /\ heap[held].cache_metadata.status = "refresh"
    /\ store # <<>>
    /\ heap[store[1].payload].results = <<RB, RA>>
    /\ posts = 2

\* C7: the status of a response follows from the lookup alone.  A fresh
\* entry gives "hit" with the entry's age; otherwise the call goes on to
\* fetch, remembering up to the end whether an entry was found and how
\* old it was, and the completed fetch reports "refresh" with that age
\* when one was found and "miss" with age 0 when none was.  The payload
\* of a miss or refresh is then the only entry under the request's key.
\* (The age is the one get reports: the entry's age when get read the
\* clock for it.)
C7_StatusFollowsLookup ==
    [][/\ \A req \in Requests :
            SearchLookup(req) =>
                LET key == CacheKey(req)
                    exists == key \in StoreKeys(store)
                    created_at == EntryOf(store, key).created_at
                IN  IF exists /\ now - created_at <= SpecTtl(req.intent)
                    THEN /\ call'.pc \in {"idle", "debug"}
                         /\ call'.pc = "idle" => call'.outcome = "returned"
                         /\ heap'[Answer'].cache_metadata =
                                Meta("hit", now' - created_at)
                    ELSE /\ call'.pc \in {"info", "fetching"}
                         /\ call'.found = exists
                         /\ exists => call'.age_seconds = now' - created_at
       /\ (call.pc # "idle" /\ call'.pc # "idle") =>
              /\ call'.found = call.found
              /\ call'.age_seconds = call.age_seconds
              /\ call'.req = call.req
       /\ call.payload # NoRef =>
              /\ Answer' = call.payload
              /\ heap'[Answer'] = heap[call.payload]
       /\ Storing =>
                LET key == CacheKey(call.req)
                IN  /\ heap'[Answer'].cache_metadata =
                           (IF call.found
                            THEN Meta("refresh", call.age_seconds)
                            ELSE Meta("miss", 0))
                    /\ Cardinality({i \in DOMAIN store' :
                                       store'[i].key = key}) = 1
                    /\ StoredPayload(store', heap', key) = heap'[Answer']
                    /\ EntryOf(store', key).created_at = now
      ]_vars

\* A stale entry of age 901 has been refreshed and overwritten.
C7_Witness ==
    /\ call.outcome = "returned"
    /\ held # NoRef
    /\ heap[held].cache_metadata = Meta("refresh", 901)
    /\ store # <<>>
    /\ heap[store[1].payload].cache_metadata = Meta("refresh", 901)

\* C8: what the cache holds for a key is not changed by a caller changing
\* the payload a search returned (the object passed to set, or the copy a
\* hit handed out), nor by the hit path writing intent and cache_metadata
\* into the copy it returns.
C8_NoAliasing ==
    [][(\/ CallerMutate
        \/ \E req \in Requests : SearchLookup(req)
        \/ SearchReturnHit
        \/ SearchClosed) =>
         \A key \in StoreKeys(store) :
             /\ key \in StoreKeys(store')
             /\ StoredPayload(store', heap', key)
                    = StoredPayload(store, heap, key)
      ]_vars

\* The caller has changed the payload a cache hit returned, and the
\* entry still has its results and its own cache_metadata.
C8_Witness ==
    /\ call.outcome = "returned"
    /\ call.fresh
    /\ held # NoRef
    /\ heap[held].cache_metadata.status = "tampered"
    /\ store # <<>>
    /\ heap[store[1].payload].results # <<>>
    /\ heap[store[1].payload].cache_metadata.status = "miss"

-----------------------------------------------------------------------------
\* Properties of the static methods.

\* The arguments with an absent or empty site or time period read as "*"
\* and an absent related count read as 0.
WithDefaults(a) ==
    [a EXCEPT !.site = IF @ \in {None, ""} THEN "*" ELSE @,
              !.time_period = IF @ \in {None, ""} THEN "*" ELSE @,
              !.related_count = IF @ = NoCount THEN <<0>> ELSE @]

\* The modelled field values that contain the separator "|".
WithSeparator == {"x|y", "y|z"}

\* Neither site nor time period contains the separator.
SeparatorFree(a) ==
    a.site \notin WithSeparator /\ a.time_period \notin WithSeparator

\* The two sets of arguments differ in exactly one field.
DifferInOneField(a, b) ==
    Cardinality({f \in KeyFields : a[f] # b[f]}) = 1

\* The same arguments give the same key and different arguments give
\* different keys.  (The counterexample to the statement of C11 as it
\* stands.)
C11_Original ==
    (args.fn = "make_key" /\ ret # <<>>) =>
        (ret[1] = ret[2] <=> args.a = args.b)

\* C11 (amended): make_key gives the same key for the same arguments; two
\* sets of arguments that differ in a single field give different keys
\* unless that field is the site or the time period and both values are
\* among absent, empty and "*", or it is the related count and the values
\* are absent and 0; and on arguments whose site and time period do not
\* contain "|", the keys are equal exactly when the arguments are equal up
\* to those defaults.
C11_KeyInjectiveUpToDefaults ==
    (args.fn = "make_key" /\ ret # <<>>) =>
        LET a == args.a
            b == args.b
        IN  /\ a = b => ret[1] = ret[2]
            /\ (DifferInOneField(a, b) /\ WithDefaults(a) # WithDefaults(b))
                   => ret[1] # ret[2]
            /\ (SeparatorFree(a) /\ SeparatorFree(b))
                   => (ret[1] = ret[2] <=> WithDefaults(a) = WithDefaults(b))

\* Two calls that differ in the page alone have returned different keys.
C11_Witness ==
    /\ args.fn = "make_key"
    /\ ret # <<>>
    /\ args.a.page = 1
    /\ args.b = [args.a EXCEPT !.page = 2]
    /\ ret[1] # ret[2]

\* The pairs of modelled characters that differ by letter case.
CasePairs == {{"a", "A"}, {"b", "B"}, {"\\u03c3", "\\u03a3"}}

\* Two texts that differ by letter case at most.
SameUpToCase(a, b) ==
    /\ Len(a) = Len(b)
    /\ \A i \in DOMAIN a : a[i] = b[i] \/ {a[i], b[i]} \in CasePairs

\* C12: embed_query gives two texts the same signature exactly when they
\* differ by letter case at most.
C12_CaseInsensitive ==
    (args.fn = "embed_query" /\ ret # <<>>) =>
        (ret[1] = ret[2] <=> SameUpToCase(args.a, args.b))

-----------------------------------------------------------------------------
\* Properties of plan construction.

\* The names of a list of hops, in order.
NamesOf(hops) == [i \in DOMAIN hops |-> hops[i].name]

\* The hop list is empty, has a name twice, or depends on an undeclared name.
Malformed(hops) ==
    \/ hops = <<>>
    \/ \E i \in DOMAIN hops, j \in DOMAIN hops :
           i # j /\ hops[i].name = hops[j].name
    \/ \E i \in DOMAIN hops :
           \E d \in SetOf(hops[i].depends_on) : d \notin NameSet(hops)

\* The names the hop of a given name depends on.
DependsOn(hops, name) ==
    UNION {SetOf(hops[i].depends_on) : i \in {j \in DOMAIN hops :
                                                 hops[j].name = name}}

\* The dependency relation has a cycle: some non-empty set of hops in
\* which every hop depends on a hop of the set.
Cyclic(hops) ==
    \E S \in SUBSET NameSet(hops) :
        S # {} /\ \A n \in S : DependsOn(hops, n) \cap S # {}

CycleError == "Cycle detected in hop dependencies"

\* C13: a plan whose hop list is empty, repeats a name or depends on an
\* undeclared name fails in the checks of the constructor, before the sort
\* and before any execution: no operation is ever invoked for it.
C13_MalformedNeverRuns ==
    (plan.pc # "none" /\ Malformed(plan.hops)) =>
        /\ plan.pc \in {"new", "failed"}
        /\ plan.pc = "failed" =>
               (plan.error # "" /\ plan.error # CycleError)
        /\ plan.order = <<>>
        /\ run.pc = "idle"
        /\ calls = <<>>

\* The constructor has refused two hops of which one depends on a name
\* that is not declared.
C13_Witness ==
    /\ plan.pc = "failed"
    /\ Len(plan.hops) = 2
    /\ NamesOf(plan.hops) = <<"search", "details">>
    /\ plan.hops[2].depends_on = <<"unknown">>
    /\ plan.error = "Hop 'details' depends on unknown hops"
    /\ calls = <<>>

\* C14: for a non-empty hop list with unique names and declared
\* dependencies only, the sort ends within as many passes as there are
\* hops, each pass within as many steps as hops are pending; it ends with
\* the cycle error only if the dependencies have a cycle (a hop depending
\* on itself included) and with a plan only if they have none.
C14_CycleExactly ==
    (plan.pc # "none" /\ ~Malformed(plan.hops)) =>
        /\ plan.passes <= Len(plan.hops)
        /\ plan.at <= Len(plan.items) + 1
        /\ Len(plan.items) <= Len(plan.hops)
        /\ plan.pc = "built" => ~Cyclic(plan.hops)
        /\ plan.pc = "failed" =>
               (Cyclic(plan.hops) /\ plan.error = CycleError)
        /\ (plan.pc = "for" /\ plan.at > Len(plan.items) /\ ~plan.progress)
               => Cyclic(plan.hops)

\* Two hops that depend on each other have been refused as a cycle.
C14_Witness ==
    /\ plan.pc = "failed"
    /\ plan.error = CycleError
    /\ plan.hops = <<Hop("search", <<"details">>, Absent),
                     Hop("details", <<"search">>, Absent)>>

\* C15: the order of a constructed plan has every declared hop exactly
\* once, each after all the hops it depends on; search, details (after
\* search), summary (after details and search) keep that order.
C15_TopologicalOrder ==
    plan.pc = "built" =>
        LET order == OrderedHops(plan)
        IN  /\ Len(order) = Len(plan.hops)
            /\ \A i \in DOMAIN plan.hops :
                   Cardinality({j \in DOMAIN order : order[j] = plan.hops[i]})
                       = 1
            /\ \A i \in DOMAIN order :
                   \A d \in SetOf(order[i].depends_on) :
                       \E j \in 1..(i - 1) : order[j].name = d
            /\ plan.hops = <<Hop("search", <<>>, Absent),
                             Hop("details", <<"search">>, Absent),
                             Hop("summary", <<"details", "search">>, Absent)>>
                   => order = plan.hops

\* A plan declared as summary (after details and search), details (after
\* search), search has been put in the order search, details, summary.
C15_Witness ==
    /\ plan.pc = "built"
    /\ plan.hops = <<Hop("summary", <<"details", "search">>, Absent),
                     Hop("details", <<"search">>, Absent),
                     Hop("search", <<>>, Absent)>>
    /\ NamesOf(plan.order) = <<"search", "details", "summary">>

\* The step of the sort that appends a hop to the order.
Appends == plan.pc = "for" /\ Len(plan'.order) > Len(plan.order)

\* The names scheduled when the pass under way began.
ResolvedAtPassStart == NameSet(plan.hops) \ NameSet(plan.items)

\* When a hop Y is appended, every hop declared before Y whose
\* dependencies are all scheduled at that moment has been appended.
\* (The counterexample to the statement of C16 as it stands.)
C16_Original ==
    [][Appends =>
         LET y == plan.items[plan.at]
         IN  \A i \in DOMAIN plan.hops, j \in DOMAIN plan.hops :
                 (/\ i < j
                  /\ plan.hops[j] = y
                  /\ SetOf(plan.hops[i].depends_on) \subseteq plan.resolved)
                 => plan.hops[i].name \in plan.resolved
      ]_vars

\* C16 (amended): when a hop Y is appended, every hop declared before Y
\* whose dependencies were all scheduled when that pass began has been
\* appended: the hops appended in one pass keep their declaration order.
C16_StableWithinPass ==
    [][Appends =>
         LET y == plan.items[plan.at]
         IN  \A i \in DOMAIN plan.hops, j \in DOMAIN plan.hops :
                 (/\ i < j
                  /\ plan.hops[j] = y
                  /\ SetOf(plan.hops[i].depends_on)
                         \subseteq ResolvedAtPassStart)
                 => plan.hops[i].name \in plan.resolved
      ]_vars

\* search (after details), details, summary: the first pass has appended
\* details and summary, the second search.
C16_Witness ==
    /\ plan.pc = "built"
    /\ plan.hops = <<Hop("search", <<"details">>, Absent),
                     Hop("details", <<>>, Absent),
                     Hop("summary", <<>>, Absent)>>
    /\ NamesOf(plan.order) = <<"details", "summary", "search">>
    /\ plan.passes = 2

-----------------------------------------------------------------------------
\* Properties of execute.

\* The first n elements of a sequence.
FirstN(q, n) == SubSeq(q, 1, n)

\* The hop names of the operations invoked so far, in order.
Invoked == [i \in DOMAIN calls |-> calls[i].hop]

\* The hop names of the trace, in order.
Traced == [i \in DOMAIN run.trace |-> run.trace[i].hop]

\* The hop of the plan with a given name.
HopNamed(name) ==
    plan.order[CHOOSE i \in DOMAIN plan.order : plan.order[i].name = name]

\* C17: the operations invoked during one execute call are, in order, the
\* first hops of plan.ordered_hops(), each once; an operation is invoked
\* only when all the operations before it have completed; the trace lists
\* the completed hops in the same order, and when execute returns both
\* are the whole order.
C17_SequentialInOrder ==
    run.pc # "idle" =>
        LET ordered == NamesOf(plan.order)
        IN  /\ Len(calls) <= Len(ordered)
            /\ Invoked = FirstN(ordered, Len(calls))
            /\ \A i \in 1..(Len(calls) - 1) : calls[i].done
            /\ run.pc = "awaiting" <=>
                   (calls # <<>> /\ ~calls[Len(calls)].done)
            /\ Len(run.trace) <= Len(calls)
            /\ Traced = FirstN(ordered, Len(run.trace))
            /\ run.pc = "returned" =>
                   (Invoked = ordered /\ Traced = ordered)

\* An execution has returned for three hops that were declared in another
\* order than they ran in.
C17_Witness ==
    /\ run.pc = "returned"
    /\ Len(calls) = 3
    /\ plan.order # plan.hops
    /\ Traced = NamesOf(plan.order)

\* The mapping an operation is passed as dependencies has the names of its
\* hop's depends_on as keys, each with the output the named hop returned.
\* (The counterexample to the statement of C18 as it stands.)
C18_Original ==
    \A i \in DOMAIN calls :
        calls[i].params.dependencies # Absent =>
            /\ calls[i].params.dependencies[1] =
                   {<<n, Output(n)>> :
                       n \in SetOf(HopNamed(calls[i].hop).depends_on)}
            /\ \A n \in SetOf(HopNamed(calls[i].hop).depends_on) :
                   \E j \in 1..(i - 1) : calls[j].hop = n /\ calls[j].done

\* C18 (amended): for every hop of a valid plan whose own params do not
\* supply "dependencies", the mapping passed to its operation as
\* dependencies has exactly the names of its depends_on as keys, each with
\* the output the named hop's operation returned earlier in the same
\* execution; the lookup of a dependency's result never fails.  A hop
\* whose params supply "dependencies" is passed that value.
C18_DependenciesWired ==
    /\ run.error # "KeyError"
    /\ \A i \in DOMAIN calls :
        LET hop == HopNamed(calls[i].hop)
            passed == calls[i].params.dependencies
        IN  /\ (hop.params.dependencies = Absent /\ passed # Absent) =>
                /\ passed[1] =
                       {<<n, Output(n)>> : n \in SetOf(hop.depends_on)}
                /\ \A n \in SetOf(hop.depends_on) :
                       \E j \in 1..(i - 1) :
                           calls[j].hop = n /\ calls[j].done
            /\ hop.params.dependencies # Absent =>
                   passed = hop.params.dependencies
            /\ (hop.params.dependencies = Absent
                    /\ "dependencies" \in Signature(hop.tool))
                   => passed # Absent

\* The operation of summary has been passed the outputs of details and
\* search, its two dependencies, and nothing else.
C18_Witness ==
    /\ run.pc = "returned"
    /\ \E i \in DOMAIN calls :
           /\ calls[i].hop = "summary"
           /\ calls[i].params.dependencies =
                  <<{<<"details", Output("details")>>,
                     <<"search", Output("search")>>}>>

\* C19: when the operation of a hop raises, execute raises that exception
\* at once: results and trace are not returned, no further operation is
\* invoked and none is invoked twice.
C19_FailurePropagates ==
    /\ [][HopFinish(TRUE) =>
            /\ run'.pc = "raised"
            /\ run'.error = Failure(Head(run.rest).name)
            /\ Invoked' = Invoked
       ]_vars
    /\ [][run.pc = "raised" => (run' = run /\ calls' = calls)]_vars
    /\ [](\A i \in DOMAIN calls, j \in DOMAIN calls :
              calls[i].hop = calls[j].hop => i = j)

\* details has raised in a plan of search, details and summary: execute
\* has raised its exception and summary was not invoked.
C19_Witness ==
    /\ run.pc = "raised"
    /\ run.error = Failure("details")
    /\ NamesOf(plan.order) = <<"search", "details", "summary">>
    /\ Invoked = <<"search", "details">>

\* C20: when the caller supplies a dict as shared_state, every operation
\* that is passed a state (and whose hop's params do not supply one) is
\* passed the caller's dict, and what a completed operation wrote is in
\* the caller's dict, also after execute has raised.
C20_CallerSeesState ==
    run.shared = CallerDict =>
        \A i \in DOMAIN calls :
            (/\ calls[i].params.state # Absent
             /\ HopNamed(calls[i].hop).params.state = Absent)
            => /\ calls[i].params.state = <<CallerDict>>
               /\ calls[i].done => calls[i].hop \in dicts[CallerDict]

\* What the executor injects for each of the three special names.
Injected(name, a) ==
    CASE name = "ctx" -> Ctx
      [] name = "dependencies" -> a.dependency_outputs
      [] name = "state" -> a.state

\* _build_invocation_params has returned the mapping passed on.
Built == args.fn = "_build_invocation_params" /\ ret # <<>>

\* C21: a parameter that the hop's params declare is passed to the
\* operation with the hop's value, whatever the operation declares: the
\* injection of ctx, dependencies or state never replaces it.
C21_DeclaredParamsWin ==
    Built =>
        \A n \in ParamNames :
            args.hop.params[n] # Absent => ret[1][n] = args.hop.params[n]

\* The hop of summary, whose operation declares ctx, dependencies and
\* state, supplies all three itself and is passed its own values.
C21_Witness ==
    /\ Built
    /\ args.hop.tool = "summary"
    /\ \A n \in SpecialNames :
           /\ args.hop.params[n] # Absent
           /\ args.hop.params[n] # <<Injected(n, args)>>
           /\ ret[1][n] = args.hop.params[n]

\* C24: for each of ctx, dependencies and state that the hop's params do
\* not supply, the operation is passed the executor's value when it
\* declares a parameter of that name and is not passed the name when it
\* does not; no name outside the hop's params and these three is passed.
C24_InjectOnlyDeclared ==
    Built =>
        /\ \A n \in SpecialNames :
               args.hop.params[n] = Absent =>
                   ret[1][n] = IF n \in Signature(args.hop.tool)
                               THEN <<Injected(n, args)>> ELSE Absent
        /\ \A n \in ParamNames \ SpecialNames :
               ret[1][n] = args.hop.params[n]

\* The operation of details declares dependencies alone: with empty
\* params it is passed the dependency outputs and neither ctx nor state.
C24_Witness ==
    /\ Built
    /\ args.hop.tool = "details"
    /\ args.hop.params = NoParams
    /\ args.dependency_outputs # {}
    /\ ret[1] = [NoParams EXCEPT
                    !["dependencies"] = <<args.dependency_outputs>>]

\* C22: after any sequence of record calls the store holds at most
\* max_entries snapshots, and they are the most recently recorded ones,
\* in the order in which they were recorded.
C22_KeepsMostRecent ==
    /\ Len(entries) <= snap_max
    /\ LET n == IF Len(recorded) < snap_max THEN Len(recorded) ELSE snap_max
       IN  entries = LastN(recorded, n)

\* Four snapshots were recorded into a store of capacity two, the first
\* two of them unlike the last two: the last two are held.
C22_Witness ==
    /\ snap_max = 2
    /\ Len(recorded) = 4
    /\ recorded[1] # recorded[3]
    /\ recorded[2] # recorded[4]
    /\ recorded[3] # recorded[4]
    /\ entries = <<recorded[3], recorded[4]>>

\* The positions in the plan order of the hops whose tool the registry
\* of the execution does not have.
Unregistered == {i \in DOMAIN plan.order : plan.order[i].tool \notin run.registry}

\* The first of them.
FirstUnregistered == CHOOSE i \in Unregistered : \A j \in Unregistered : i <= j

\* C23: a hop whose tool is not in the registry makes execute raise when
\* the loop reaches it and not before: the operations of the hops before
\* it in the plan order have been invoked and have completed, what they
\* wrote is in the state they were passed, no operation is invoked for
\* the unregistered hop or for a later one, and execute does not return.
C23_UnknownToolAborts ==
    /\ [](\A i \in DOMAIN calls : calls[i].tool \in run.registry)
    /\ []((run.pc # "idle" /\ Unregistered # {}) =>
            LET k == FirstUnregistered
                tool_name == plan.order[k].tool
            IN  /\ run.pc # "returned"
                /\ Len(calls) < k
                /\ run.error = NotRegistered(tool_name) =>
                       /\ run.pc = "raised"
                       /\ \A i \in DOMAIN calls : calls[i].done
                       /\ Invoked = FirstN(NamesOf(plan.order), k - 1)
                       /\ Traced = Invoked
                       /\ \A i \in DOMAIN calls :
                              calls[i].params.state # Absent =>
                                  calls[i].hop
                                      \in dicts[calls[i].params.state[1]])
    /\ [][(/\ run.pc = "loop"
            /\ run.rest # <<>>
            /\ Head(run.rest).tool \notin run.registry
            /\ run' # run)
             => /\ run'.pc = "raised"
                /\ run'.error = NotRegistered(Head(run.rest).tool)
                /\ calls' = calls
                /\ dicts' = dicts]_vars
    /\ [][run.pc = "raised" => UNCHANGED <<run, calls, dicts>>]_vars

\* search and details have run, search has written into the caller's
\* dict, and execute has raised on reaching summary, which the registry
\* does not have.
C23_Witness ==
    /\ run.pc = "raised"
    /\ run.error = NotRegistered("summary")
    /\ run.shared = CallerDict
    /\ Invoked = <<"search", "details">>
    /\ \A i \in DOMAIN calls : calls[i].done
    /\ "search" \in dicts[CallerDict]

\* One sequence is the beginning of another.
IsPrefix(p, q) == Len(p) <= Len(q) /\ p = FirstN(q, Len(p))

\* C25: results has one HopResult for each completed hop, keyed by the
\* hop's name, with the hop's output and a metadata that lists the hop's
\* depends_on and tool; trace has one record for each completed hop and
\* its i-th record names the i-th hop of ordered_hops(); both only grow,
\* by one entry each when an operation completes, and so have the same
\* size; when execute returns they cover every hop of the plan.
C25_ResultsMatchTrace ==
    /\ [](run.pc # "idle" =>
            /\ Cardinality(run.results) = Len(run.trace)
            /\ Cardinality(ResultNames(run.results)) = Len(run.trace)
            /\ ResultNames(run.results) = SetOf(Traced)
            /\ \A r \in run.results :
                   /\ r.hop = HopNamed(r.hop.name)
                   /\ r.output = Output(r.hop.name)
                   /\ r.metadata = [dependencies |-> r.hop.depends_on,
                                    tool |-> r.hop.tool]
            /\ \A i \in DOMAIN run.trace :
                   run.trace[i] = [hop |-> plan.order[i].name,
                                   tool |-> plan.order[i].tool,
                                   depends_on |-> plan.order[i].depends_on]
            /\ run.pc = "returned" =>
                   /\ Len(run.trace) = Len(plan.order)
                   /\ ResultNames(run.results) = SetOf(NamesOf(plan.hops)))
    /\ [][run.pc # "idle" =>
            /\ run.results \subseteq run'.results
            /\ IsPrefix(run.trace, run'.trace)
            /\ Len(run'.trace) <= Len(run.trace) + 1
            /\ Len(run'.trace) = Len(run.trace) + 1 <=>
                   (/\ run.pc = "awaiting"
                    /\ calls'[Len(calls)].done
                    /\ run'.pc = "loop")]_vars

\* execute has returned three results and three trace records for hops
\* that were declared in another order than they ran in.
C25_Witness ==
    /\ run.pc = "returned"
    /\ plan.order # plan.hops
    /\ Cardinality(run.results) = 3
    /\ Traced = <<"search", "details", "summary">>
    /\ ResultOf(run.results, "summary").metadata =
           [dependencies |-> <<"details", "search">>, tool |-> "summary"]

\* The step leaves the cache as it is: the entries, their order, their
\* created_at and the payloads they hold.
SameCache ==
    /\ store' = store
    /\ \A i \in DOMAIN store :
           heap'[store[i].payload] = heap[store[i].payload]

\* The entry for a key exists and is past the TTL of the intent.
Stale(key, intent) ==
    /\ key \in StoreKeys(store)
    /\ now - EntryOf(store, key).created_at > SpecTtl(intent)

\* The places inside the try block of duckduckgo_search where a
\* coroutine can be suspended.
InTry == {"info", "fetching", "progress"}

\* Coroutine t is on its way out of duckduckgo_search with an exception,
\* or has left it with one.
Raising(ts, t) ==
    \/ ts[t].pc = "error"
    \/ ts[t].pc = "closing" /\ ts[t].exit = "raise"
    \/ ts[t].pc = "idle" /\ ts[t].outcome = "raised"

\* C26: a search that does not find a fresh entry and in which the fetch
\* or the parsing fails raises and does nothing to the cache, in none of
\* its steps from the lookup to the raise: no entry is added, removed or
\* replaced, no created_at changes, the order stays; and a search that
\* finds a stale entry, as the next one does after a failed refresh, is
\* handed the payload of that entry for the merge.
C26_FailureLeavesCache ==
    [][/\ \A req \in TaskRequests :
            (TaskLookup(First, req) /\ ~WithinTtl(req)) =>
                /\ SameCache
                /\ tasks'[First].pc \in {"info", "fetching"}
                /\ Stale(CacheKey(req), req.intent) =>
                       /\ tasks'[First].cached # NoRef
                       /\ heap'[tasks'[First].cached] =
                              StoredPayload(store, heap, CacheKey(req))
       /\ (tasks[First].pc \in InTry /\ tasks'[First].pc \in InTry) =>
              SameCache
       /\ (tasks[First].pc \in InTry /\ TaskFail(First)) =>
              /\ SameCache
              /\ posts' = posts
              /\ Raising(tasks', First)
       /\ Raising(tasks, First) =>
              /\ Raising(tasks', First) \/ tasks[First].pc = "idle"
              /\ tasks[First].pc # "idle" =>
                     /\ SameCache
                     /\ posts' = posts
      ]_vars

\* In a cache of capacity two one search has stored an entry and the
\* refresh of the entry, stale by then, has failed; the third search has
\* been handed the payload of that entry, which is still the only one
\* and as old as it was, and is about to fetch.
C26_Witness ==
    /\ max_entries = 2
    /\ posts = 2
    /\ tasks[First].pc = "info"
    /\ tasks[First].found
    /\ Len(store) = 1
    /\ store[1].key = tasks[First].key
    /\ store[1].created_at = 0
    /\ heap[tasks[First].cached] = heap[store[1].payload]

\* The results of the stale payload that coroutine t keeps for the merge.
StaleResultsOf(t) ==
    IF tasks[t].cached = NoRef THEN <<>> ELSE heap[tasks[t].cached].results

\* C27: however the steps of concurrent searches interleave, the store
\* has at most one entry per key and at most max_entries entries; a
\* search that finds no fresh entry goes on to fetch, whether or not
\* another one is fetching for the same key; the stale payload a search
\* was handed stays as it was while the search is suspended; and the
\* entry a search stores is the most recent one of the store and holds
\* that search's own reranked results merged with the stale results of
\* its own lookup.
C27_InterleavedSearches ==
    /\ [](/\ Len(store) <= max_entries
          /\ \A i \in DOMAIN store, j \in DOMAIN store :
                 store[i].key = store[j].key => i = j)
    /\ [][\A t \in TaskIds :
            /\ \A req \in TaskRequests :
                   (/\ tasks[t].pc = "idle"
                    /\ tasks'[t] # tasks[t]
                    /\ ~WithinTtl(req)
                    /\ TaskLookup(t, req)) =>
                       /\ tasks'[t].pc \in {"info", "fetching"}
                       /\ posts' = posts + (IF tasks'[t].pc = "fetching"
                                            THEN 1 ELSE 0)
                       /\ tasks'[t].found =>
                              heap'[tasks'[t].cached] =
                                  StoredPayload(store, heap, CacheKey(req))
            /\ (tasks[t].pc = "info" /\ tasks'[t].pc = "fetching") =>
                   posts' = posts + 1
            /\ (tasks[t].pc \in InTry /\ tasks'[t].pc \in InTry) =>
                   /\ tasks'[t] = [tasks[t] EXCEPT !.pc = tasks'[t].pc]
                   /\ tasks[t].cached # NoRef =>
                          heap'[tasks[t].cached] = heap[tasks[t].cached]
            /\ \A results \in TaskOutputs :
                   (/\ tasks[t].pc \in {"fetching", "progress"}
                    /\ tasks'[t].pc \in {"idle", "closing"}
                    /\ TaskStore(t, results)) =>
                       LET fresh == RerankResults(results)
                           entry == store'[Len(store')]
                       IN  /\ entry.key = tasks[t].key
                           /\ entry.created_at = now
                           /\ heap'[entry.payload].results =
                                  DedupByUrlDropEmpty(
                                      fresh \o StaleResultsOf(t))
                           /\ heap'[entry.payload].cache_metadata.status =
                                  IF tasks[t].found THEN "refresh" ELSE "miss"
       ]_vars

\* An entry was stored and went stale; both coroutines have looked it up
\* before either stored, and both are suspended on a fetch of their own
\* with the stale payload in hand.
C27_Witness ==
    /\ posts = 3
    /\ \A t \in TaskIds :
           /\ tasks[t].pc = "fetching"
           /\ tasks[t].found
           /\ tasks[t].key = store[1].key
           /\ heap[tasks[t].cached] = heap[store[1].payload]
    /\ tasks["t1"].cached # tasks["t2"].cached
    /\ Len(store) = 1

\* Where a coroutine is suspended with the client of its call in hand
\* and the block that closes it still ahead: in the try block of a
\* search, in its handler, in the inner try block of a summary, or in
\* the `async with` block of duckduckgo_get_details.
HoldingPcs == InTry \cup {"error", "summarizing", "details", "spidering"}

\* The coroutines that are suspended there.
Holding == {t \in TaskIds : tasks[t].pc \in HoldingPcs}

\* The coroutines of Holding that are in duckduckgo_search.
Searching == {t \in TaskIds : tasks[t].pc \in InTry \cup {"error"}}

\* The coroutines of Holding that are in duckduckgo_get_details, which
\* makes its client itself.
Detailing == {t \in TaskIds : tasks[t].pc \in {"details", "spidering"}}

\* C30: without a lifespan mapping a search that fetches makes a client
\* of its own, which stays open while the search is in its try block or
\* its handler and is closed when the search passes its finally block,
\* on the way to the return or to the raise, and by no one else; with a
\* lifespan mapping it uses the mapping's client, which it puts there if
\* there is none and which stays there for the later calls, and no step
\* of a tool call closes that client: it is closed only by the server
\* that made it, when that shuts down; the other clients there are under
\* a mapping are those duckduckgo_get_details calls have made for
\* themselves and close themselves; a search answered by a fresh entry
\* makes or takes no client.
C30_ClientClosedWhenEphemeral ==
    /\ [](\A t \in Holding :
              /\ tasks[t].http_client \in DOMAIN clients
              /\ tasks[t].close_client <=>
                     (~lifespan.mapping \/ t \in Detailing)
              /\ tasks[t].close_client =>
                     clients[tasks[t].http_client] = "open")
    /\ [](~lifespan.mapping =>
              /\ \A i \in DOMAIN clients :
                     clients[i] = "open" <=>
                         \E t \in Holding : tasks[t].http_client = i
              /\ \A t \in Holding, u \in Holding :
                     tasks[t].http_client = tasks[u].http_client => t = u)
    /\ [](lifespan.mapping =>
              /\ posts > 0 => lifespan.http_client \in DOMAIN clients
              /\ \A t \in Holding \ Detailing :
                     tasks[t].http_client = lifespan.http_client
              /\ \A t \in Detailing, u \in Holding :
                     tasks[t].http_client = tasks[u].http_client => t = u
              /\ \A i \in DOMAIN clients :
                     IF i = lifespan.http_client
                     THEN clients[i] = "closed" =>
                              /\ lifespan = ServerLifespan
                              /\ server # RunningServer
                     ELSE clients[i] = "open" <=>
                              \E t \in Detailing : tasks[t].http_client = i)
    /\ [][/\ Len(clients') >= Len(clients)
          /\ \A i \in DOMAIN clients :
                 clients'[i] # clients[i] =>
                     /\ clients'[i] = "closed"
                     /\ \/ \E t \in Holding :
                              /\ tasks[t].http_client = i
                              /\ tasks[t].close_client
                              /\ tasks'[t].pc \notin HoldingPcs
                        \/ /\ tasks' = tasks
                           /\ server' # server
                           /\ i = server.http_client
                           /\ i = lifespan.http_client
          /\ (lifespan.mapping /\ tasks' # tasks) =>
                 /\ lifespan.http_client \in DOMAIN clients =>
                        clients'[lifespan.http_client] =
                            clients[lifespan.http_client]
                 /\ \A t \in TaskIds \ Detailing :
                        tasks'[t] # tasks[t] =>
                            \A i \in DOMAIN clients : clients'[i] = clients[i]
          /\ \A t \in Searching :
                 (tasks'[t].pc \in {"closing", "idle"}
                     /\ ~lifespan.mapping) =>
                     clients'[tasks[t].http_client] = "closed"
          /\ lifespan' # lifespan =>
                 /\ lifespan.mapping
                 /\ lifespan.http_client = NoClient
                 /\ lifespan' = [lifespan EXCEPT
                                    !.http_client = Len(clients) + 1]
                 /\ clients' = Append(clients, "open")
          /\ tasks' = tasks => UNCHANGED <<lifespan, posts>>]_vars
    /\ [][\A t \in TaskIds :
            /\ \A req \in SameKeyRequests :
                   (/\ tasks[t].pc = "idle"
                    /\ tasks'[t] # tasks[t]
                    /\ WithinTtl(req)
                    /\ TaskLookup(t, req)) =>
                       /\ tasks'[t].pc \in {"debug", "idle"}
                       /\ tasks'[t].http_client = NoClient
                       /\ UNCHANGED <<clients, lifespan, posts>>
            /\ tasks[t].pc = "debug" =>
                   /\ tasks'[t].pc \in {"debug", "idle"}
                   /\ tasks'[t].http_client = NoClient
                   /\ (tasks'[t].pc = "idle" /\ tasks'[t].outcome = "returned")
                          => UNCHANGED <<lifespan, posts>>]_vars

\* Without a lifespan mapping one search has returned and one has raised,
\* each after a fetch with a client of its own, and both clients are
\* closed.
C30_Witness ==
    /\ ~lifespan.mapping
    /\ tasks["t1"].outcome = "returned"
    /\ tasks["t2"].outcome = "raised"
    /\ posts = 2
    /\ clients = <<"closed", "closed">>

\* C28: a lookup, fresh or not, leaves every created_at as it is, and a
\* created_at is only ever written by the set of a search that fetched,
\* with the time of that set; so a search whose entry is older than the
\* TTL of its intent is not answered from the cache, however many fresh
\* hits the entry has served: it finds the entry stale and goes on to
\* fetch.
C28_HitsDoNotExtendLifetime ==
    /\ [](\A i \in DOMAIN store : store[i].created_at <= now)
    /\ [][\A k \in StoreKeys(store') :
            (\/ k \notin StoreKeys(store)
             \/ EntryOf(store', k).created_at # EntryOf(store, k).created_at)
            => /\ EntryOf(store', k).created_at = now
               /\ \E t \in TaskIds :
                      /\ tasks[t].pc \in {"fetching", "progress"}
                      /\ tasks[t].key = k
                      /\ \/ tasks'[t] = IdleTask("returned")
                         \/ /\ tasks'[t].pc = "closing"
                            /\ tasks'[t].exit = "return"]_vars
    /\ [][\A t \in TaskIds, req \in TaskRequests :
            TaskLookup(t, req) =>
                /\ StoreKeys(store') = StoreKeys(store)
                /\ \A k \in StoreKeys(store) :
                       EntryOf(store', k).created_at =
                           EntryOf(store, k).created_at
                /\ Stale(CacheKey(req), req.intent) =>
                       /\ tasks'[t].pc \in {"info", "fetching"}
                       /\ tasks'[t].found
                       /\ ~tasks'[t].fresh
                       /\ posts' = posts + (IF tasks'[t].pc = "fetching"
                                            THEN 1 ELSE 0)
                /\ WithinTtl(req) =>
                       /\ \/ tasks'[t] = IdleTask("returned")
                          \/ tasks'[t].pc = "debug"
                       /\ posts' = posts]_vars

\* The entry stored at 0 has served a fresh hit at 900, which moved it
\* behind the entry stored at 900; at 901 a search finds it stale and
\* fetches.
C28_Witness ==
    /\ now = 901
    /\ Len(store) = 2
    /\ store[1].created_at = 900
    /\ store[2].created_at = 0
    /\ \E t \in TaskIds :
           /\ tasks[t].pc = "fetching"
           /\ tasks[t].key = store[2].key
           /\ tasks[t].found
           /\ tasks[t].age_seconds = 901
    /\ posts = 3

\* C29: in a cache of capacity one or more, a set never evicts the entry
\* it writes: right after set(k, payload) the store holds k at its most
\* recently used end with a payload equal to the one passed, and a get of
\* k with any intent finds it fresh and returns an equal payload; and in
\* a cache of capacity zero or more no set raises from its eviction.
C29_SetKeepsItsEntry ==
    /\ [][\A key \in KeySet, a \in SetInputs :
            (/\ max_entries >= 1
             /\ last'.key = key
             /\ Set(key, a[1], a[2], a[3])) =>
                /\ store' # <<>>
                /\ store'[Len(store')].key = key
                /\ heap'[store'[Len(store')].payload] = a[3]
                /\ \A intent \in GetIntents :
                       LET r == CacheGet(store', heap', now', now', key, intent,
                                          {})
                       IN  /\ r.found
                           /\ r.fresh
                           /\ r.age_seconds = 0
                           /\ r.heap[r.ref] = a[3]]_vars
    /\ [](max_entries >= 0 =>
              /\ last.op # "set raised KeyError"
              /\ Len(store) <= max_entries)

\* A set on a full cache of capacity one has evicted the other key and
\* kept the entry it wrote.
C29_Witness ==
    /\ max_entries = 1
    /\ last.op = "set"
    /\ ~last.replaced
    /\ last.dropped # {}
    /\ last.key \notin last.dropped
    /\ StoreKeys(store) = {last.key}

====
